---------------------------- MODULE Spec2Model ----------------------------
(***************************************************************************)
(* Deploy Tunnel: the Go bridge that runs one Bun adapter process per call *)
(* (internal/bridge), modelled from Bridge.Execute, the typed facade       *)
(* methods built on it, NewBridge and SetTimeout.                          *)
(*                                                                         *)
(* One call is in flight at a time.  The caller's context, the timer of    *)
(* context.WithTimeout and the adapter child process are the environment:  *)
(* the timer fires, the context ends and the child exits at moments the    *)
(* engine does not choose.  Time is not counted: a timer armed with a      *)
(* positive duration fires at some later step.                             *)
(***************************************************************************)
EXTENDS Integers, Sequences, FiniteSets, TLC

VARIABLES
    timeout,        \* Bridge.timeout, a duration in seconds
    pc,             \* where the call in flight stands
    caller,         \* "Execute", or the facade method that was called
    provider,       \* argument provider
    verb,           \* argument verb
    params,         \* argument params: "nil", "value" or "unmarshalable"
    stdin,          \* what cmd.Stdin holds: "empty" or "json"
    ctxErr,         \* ctx.Err() of the caller's context
    deadline,       \* the duration timeoutCtx was created with
    timeoutCtxErr,  \* timeoutCtx.Err()
    timerFired,     \* the timer of timeoutCtx has fired
    child,          \* the adapter process: "none", "running", "exited", "killed"
    hangs,          \* the adapter process never exits on its own
    argv,           \* the verb argument the child was started with
    spawned,        \* child processes started during this call
    runs,           \* cmd.Run invocations during this call
    execs,          \* Bridge.Execute invocations during this call
    stdout,         \* the stdout buffer
    stderr,         \* the stderr buffer
    exitCode,       \* the child's exit status
    response,       \* Execute's first return value
    err,            \* Execute's second return value
    result,         \* the facade method's first return value
    resultErr,      \* the facade method's second return value
    handle,         \* cmd's process handle and pipes: "none", "open", "released"
    \* one run of the Vercel adapter executable
    adapterPc,      \* "none", "execute", "written", "exited"
    adapterVerb,    \* process.argv[2]
    isTTY,          \* process.stdin.isTTY: "true", "false" or "undefined"
    adapterStdin,   \* the text on standard input
    adapterParams,  \* params, as the entry point hands it to execute
    adapterStdout,  \* the lines written to standard output
    adapterStderr,  \* the lines written to standard error
    adapterExit,    \* the exit status, -1 while the process runs
    \* one request on its way from a facade method into the adapter
    rtPc,           \* "idle", "sent", "received"
    rtFacade,       \* the facade method that was called
    rtSent,         \* the params struct it was called with, field by field
    rtArgv,         \* the verb argument of the command
    rtStdin,        \* the bytes on the command's standard input
    rtVerb,         \* verb, as the entry point reads it
    rtReceived,     \* params, as the entry point hands it to execute
    \* what the call before the one in flight came to
    prev,           \* its method, provider, timeout, adapter output and results
    \* the keychain of the operating system, service "deploy-tunnel"
    keyring,        \* the stored entries: a function from keys to secrets
    kcCall,         \* the keychain call made last, with the keyring before it
    \* one authentication flow: dt auth <provider>, or the auth screen
    runPc,          \* where AuthCommand.Run stands
    authProvider,   \* the provider being authenticated
    issued,         \* what the flow has done so far: verbs and keychain calls
    caps,           \* the CapabilitiesData the flow got, NilData while it has none
    authData,       \* the AuthStartData the flow got, NilData while it has none
    shown,          \* the instructions shown: "none", "oauth" or "prompt"
    browserOpened,  \* openBrowser was called during the flow
    opens,          \* how many times openBrowser was called during the flow
    token,          \* the token the user entered
    authErr,        \* the error the flow ended with, "nil" for none
    \* the terminal interface
    screen,         \* "none", "dashboard", "init" or "auth"
    prog,           \* the tea.Program of the screen: "none", "running", "returned"
    quitKey,        \* the key whose handler returned tea.Quit
    launchKey,      \* quitKey of the screen before, when this one was launched
    selected,       \* DashboardModel.selected
    quitting,       \* DashboardModel.quitting
    pending,        \* the message a command sent, until Update takes it
    initStep,       \* InitModel.step
    initModel,      \* InitModel: selectedSource, selectedTarget, domain, err
    initShown,      \* what InitModel.View rendered last
    migrations,     \* the rows this run of dt has inserted into migrations
    authStep,       \* AuthModel.step
    width,          \* the width of the model on screen
    cmd             \* the command a handler returned, until it has run

bridgeVars == << timeout, pc, caller, provider, verb, params, stdin, ctxErr,
                 deadline, timeoutCtxErr, timerFired, child, hangs, argv, spawned,
                 runs, execs, stdout, stderr, exitCode, response, err, result,
                 resultErr, handle >>

adapterVars == << adapterPc, adapterVerb, isTTY, adapterStdin, adapterParams,
                  adapterStdout, adapterStderr, adapterExit >>

rtVars == << rtPc, rtFacade, rtSent, rtArgv, rtStdin, rtVerb, rtReceived >>

historyVars == << prev >>

keychainVars == << keyring, kcCall >>

flowVars == << runPc, authProvider, issued, caps, authData, shown, browserOpened, opens,
               token, authErr >>

tuiVars == << screen, prog, quitKey, launchKey, selected, quitting, pending,
              initStep, initModel, initShown, migrations, authStep, width, cmd >>

appVars == << keychainVars, flowVars, tuiVars >>

vars == << bridgeVars, adapterVars, rtVars, historyVars, appVars >>

\* what the actions of one part leave alone
outsideCalls == << adapterVars, rtVars, appVars >>

outsideBridge == << outsideCalls, historyVars >>

outsideAdapter == << bridgeVars, rtVars, historyVars, appVars >>

outsideRoundTrip == << bridgeVars, adapterVars, historyVars, appVars >>

outsideApp == << bridgeVars, adapterVars, rtVars, historyVars >>

-----------------------------------------------------------------------------
(* Bounds of the model *)

\* longest non-JSON output an adapter writes, in characters
MaxOut == 3

-----------------------------------------------------------------------------
(* types.go *)

Providers == {"vercel", "cloudflare", "render", "netlify"}

ErrAuthFailed == "AUTH_FAILED"
ErrAuthRequired == "AUTH_REQUIRED"
ErrProviderError == "PROVIDER_ERROR"
ErrNetworkError == "NETWORK_ERROR"
ErrInvalidParams == "INVALID_PARAMS"
ErrNotFound == "NOT_FOUND"
ErrRateLimited == "RATE_LIMITED"
ErrUnsupported == "UNSUPPORTED"
ErrTimeout == "TIMEOUT"
ErrUnknown == "UNKNOWN"

ErrorCodes == { ErrAuthFailed, ErrAuthRequired, ErrProviderError, ErrNetworkError,
                ErrInvalidParams, ErrNotFound, ErrRateLimited, ErrUnsupported,
                ErrTimeout, ErrUnknown }

\* a nil pointer, a nil error
Nil == [type |-> "nil"]

\* &BridgeError{Code, Message, Recoverable}; a message is the sequence of its parts
BridgeError(code, message, recoverable) ==
    [type |-> "BridgeError", code |-> code, message |-> message,
     recoverable |-> recoverable]

\* &Response{OK, Data, Error, AdapterVersion}
Response(ok, data, error, version) ==
    [type |-> "Response", OK |-> ok, Data |-> data, Error |-> error,
     AdapterVersion |-> version]

-----------------------------------------------------------------------------
(* bridge.go: constants *)

defaultTimeout == 30

maxRetries == 3

\* the verbs of the protocol, as the facade methods and the adapters name them
Verbs == { "capabilities", "auth:start", "auth:refresh", "fetch:config",
           "sync:env", "deploy:preview", "dns:update", "dns:rollback" }

\* a verb string outside the protocol
OtherVerbs == { "bogus:verb" }

\* the verbs the model passes to Execute directly: one no facade method issues,
\* one a facade method issues too, and one outside the protocol
DirectVerbs == { "auth:refresh", "fetch:config" } \cup OtherVerbs

\* the facade methods of Bridge
Facades == { "Capabilities", "AuthStart", "FetchConfig", "SyncEnv",
             "DeployPreview", "DnsUpdate", "DnsRollback" }

\* the verb each facade method passes to Execute
FacadeVerb(f) ==
    CASE f = "Capabilities" -> "capabilities"
      [] f = "AuthStart" -> "auth:start"
      [] f = "FetchConfig" -> "fetch:config"
      [] f = "SyncEnv" -> "sync:env"
      [] f = "DeployPreview" -> "deploy:preview"
      [] f = "DnsUpdate" -> "dns:update"
      [] f = "DnsRollback" -> "dns:rollback"

\* the params each facade method passes to Execute
FacadeParams(f) == IF f = "Capabilities" THEN "nil" ELSE "value"

\* the text each facade method wraps a decode failure in
FacadeParseText(f) ==
    CASE f = "Capabilities" -> "failed to parse capabilities"
      [] f = "AuthStart" -> "failed to parse auth data"
      [] f = "FetchConfig" -> "failed to parse config data"
      [] f = "SyncEnv" -> "failed to parse sync data"
      [] f = "DeployPreview" -> "failed to parse deploy data"
      [] f = "DnsUpdate" -> "failed to parse DNS update data"
      [] f = "DnsRollback" -> "failed to parse DNS rollback data"

\* the durations a caller gives to SetTimeout
TimeoutChoices == {0, 1, defaultTimeout}

\* the providers whose <adaptersPath>/<provider>/index.ts exists
InstalledAdapters == {"vercel"}


-----------------------------------------------------------------------------
(* What an adapter process can write to its standard output.               *)
(*                                                                         *)
(* An output is a record: kind says what the bytes are ("empty", "text"    *)
(* for bytes that are no JSON, "null" and "array" for JSON that is no      *)
(* object, "object" for a JSON object); raw holds the characters of a     *)
(* "text" output; ok, error, data and ver are the members of an "object",  *)
(* each "absent" when the object has no such member.                       *)

\* the i-th character of a non-JSON output
TextChar(i) == IF i % 3 = 1 THEN "n" ELSE IF i % 3 = 2 THEN "o" ELSE "t"

\* the non-JSON output of n characters
Text(n) == [i \in 1..n |-> TextChar(i)]

Output(kind, raw, ok, error, data, ver) ==
    [kind |-> kind, raw |-> raw, ok |-> ok, error |-> error, data |-> data,
     ver |-> ver]

\* the "error" member of an envelope, as written: every member of it may be missing
WireError(code, message, recoverable) ==
    [code |-> code, message |-> message, recoverable |-> recoverable]

NoWireError == WireError("none", "none", "none")

WireErrors ==
    { NoWireError,
      WireError(ErrAuthFailed, "bad token", "true"),
      WireError(ErrTimeout, "upstream timed out", "true"),
      WireError(ErrInvalidParams, "project_id required", "false"),
      WireError("absent", "absent", "absent") }

EmptyOutput == Output("empty", << >>, "absent", NoWireError, "absent", "absent")

TextOutputs ==
    { Output("text", Text(n), "absent", NoWireError, "absent", "absent") : n \in 1..MaxOut }

JsonNonObjects ==
    { Output(k, << >>, "absent", NoWireError, "absent", "absent") : k \in {"null", "array"} }

\* "ok" is a boolean, is missing, or is no boolean ("badtype")
OkMembers == {"true", "false", "absent", "badtype"}

\* "data" is missing, is {}, has the members of the verb's result with the right
\* types ("good"), or has a member of the wrong type ("bad")
DataMembers == {"absent", "empty", "good", "bad"}

VersionMembers == {"absent", "1.0.0"}

JsonObjects ==
    { Output("object", << >>, ok, e, d, v) :
        ok \in OkMembers, e \in WireErrors, d \in DataMembers, v \in VersionMembers }

\* the objects the model lets an adapter write: every combination of ok and
\* error with one data and version each, and every data and version with ok:true
Envelopes ==
    { o \in JsonObjects :
        \/ o.data = "absent" /\ o.ver = "1.0.0"
        \/ o.ok = "true" /\ o.error = NoWireError
        \/ o.ok = "absent" /\ o.error = NoWireError /\ o.data = "absent" }

Outputs == {EmptyOutput} \cup TextOutputs \cup JsonNonObjects \cup Envelopes

\* what the child leaves on standard error
StderrTexts == {"", "boom"}

ExitCodes == {0, 1}

\* how the model lets an adapter process end: any output with a clean exit and
\* nothing on standard error; a clean exit with diagnostics on standard error;
\* a failing exit after no output, after half an output or after whole envelopes
Endings ==
    { << out, 0, "" >> : out \in Outputs }
    \cup { << Output("object", << >>, "true", NoWireError, "good", "1.0.0"), 0, "boom" >> }
    \cup { << out, 1, serr >> :
              out \in { EmptyOutput,
                        Output("text", Text(1), "absent", NoWireError, "absent", "absent"),
                        Output("object", << >>, "true", NoWireError, "good", "1.0.0"),
                        Output("object", << >>, "false",
                               WireError(ErrAuthFailed, "bad token", "true"),
                               "absent", "1.0.0") },
              serr \in StderrTexts }

-----------------------------------------------------------------------------
(* encoding/json, as Execute and mapToStruct use it *)

\* the *BridgeError json.Unmarshal builds from the "error" member
DecodeError(e) ==
    IF e = NoWireError
    THEN Nil
    ELSE BridgeError(IF e.code = "absent" THEN "" ELSE e.code,
                     IF e.message = "absent" THEN << >> ELSE << e.message >>,
                     e.recoverable = "true")

\* json.Unmarshal(stdout.Bytes(), &response): err is "nil" or the kind of failure
Unmarshal(out) ==
    CASE out.kind \in {"empty", "text"} ->
            [err |-> "syntax error", response |-> Nil]
      [] out.kind = "array" ->
            [err |-> "cannot unmarshal", response |-> Nil]
      [] out.kind = "null" ->
            [err |-> "nil", response |-> Response(FALSE, "nil", Nil, "")]
      [] out.kind = "object" ->
            IF out.ok = "badtype"
            THEN [err |-> "cannot unmarshal", response |-> Nil]
            ELSE [err |-> "nil",
                  response |-> Response(out.ok = "true",
                                        IF out.data = "absent" THEN "nil" ELSE out.data,
                                        DecodeError(out.error),
                                        IF out.ver = "absent" THEN "" ELSE out.ver)]

\* faulty variant of TypedData: the result is built with state of the Bridge
\* that SetTimeout changes between calls
TypedDataFromBridgeState(f, value) ==
    [type |-> "Data", of |-> f,
     value |-> IF timeout = defaultTimeout THEN value ELSE "stale"]

\* the typed result a facade method returns
TypedData(f, value) == [type |-> "Data", of |-> f, value |-> value]

\* faulty variant of mapToStruct: a value of another type is passed over
mapToStructLax(m, f) ==
    CASE m \in {"nil", "empty", "bad"} -> [err |-> "nil", data |-> TypedData(f, "zero")]
      [] m = "good" -> [err |-> "nil", data |-> TypedData(f, "filled")]

\* faulty variant of mapToStruct: a map without members is turned down
mapToStructStrict(m, f) ==
    CASE m = "nil" -> [err |-> "nil", data |-> TypedData(f, "zero")]
      [] m = "good" -> [err |-> "nil", data |-> TypedData(f, "filled")]
      [] m \in {"empty", "bad"} -> [err |-> "cannot unmarshal", data |-> Nil]

\* mapToStruct(resp.Data, &data): a nil or empty map leaves the struct zero
mapToStruct(m, f) ==
    CASE m \in {"nil", "empty"} -> [err |-> "nil", data |-> TypedData(f, "zero")]
      [] m = "good" -> [err |-> "nil", data |-> TypedData(f, "filled")]
      [] m = "bad" -> [err |-> "cannot unmarshal", data |-> Nil]

-----------------------------------------------------------------------------
(* errors made with fmt.Errorf: the text, the wrapped error, and what the  *)
(* format appends (the provider, the stderr text, the stdout bytes)        *)

Errorf(text, cause, prov, serr, out) ==
    [type |-> "error", text |-> text, cause |-> cause, provider |-> prov,
     stderr |-> serr, output |-> out]

\* fmt.Sprintf("adapter command timed out after %s", b.timeout)
TimeoutMessage(d) == << "adapter command timed out after", d >>


-----------------------------------------------------------------------------
(* Bridge *)

\* NewBridge
NewBridge == defaultTimeout

\* the values of the per-call variables while no call is in flight
NoCall ==
    /\ pc = "idle"
    /\ caller = "none" /\ provider = "none" /\ verb = "none" /\ params = "none"
    /\ stdin = "none"
    /\ ctxErr = "nil" /\ deadline = -1 /\ timeoutCtxErr = "nil" /\ timerFired = FALSE
    /\ child = "none" /\ hangs = FALSE /\ argv = "none"
    /\ spawned = 0 /\ runs = 0 /\ execs = 0
    /\ stdout = EmptyOutput /\ stderr = "" /\ exitCode = -1
    /\ response = Nil /\ err = Nil /\ result = Nil /\ resultErr = Nil
    /\ handle = "none"

\* the values of the adapter's variables while no adapter process is modelled
NoAdapterRun ==
    /\ adapterPc = "none"
    /\ adapterVerb = "none" /\ isTTY = "none" /\ adapterStdin = "none"
    /\ adapterParams = "none"
    /\ adapterStdout = << >> /\ adapterStderr = << >> /\ adapterExit = -1

\* the values of the request's variables while no request is followed
NoRequest ==
    /\ rtPc = "idle"
    /\ rtFacade = "none" /\ rtArgv = "none" /\ rtVerb = "none"
    /\ rtSent = [nil |-> TRUE, fields |-> << >>]
    /\ rtStdin = [bytes |-> "empty", object |-> << >>]
    /\ rtReceived = [value |-> "undefined", fields |-> << >>]

\* no call has been made before
NoPrev == [caller |-> "none"]

\* the keychain holds nothing of service "deploy-tunnel" and was never called
NoCredentials ==
    /\ keyring = << >>
    /\ kcCall = [op |-> "none"]

\* a nil *AuthStartData
NilData == [nil |-> TRUE]

\* the CapabilitiesData that bridge.Capabilities returns with a nil error
CapabilitiesData == [nil |-> FALSE]

\* no command is running
NoCmd == [name |-> "none"]

\* no message waits for Update
NoMsg == [type |-> "none"]

\* the values of the flow's variables while no authentication is under way
NoFlow ==
    /\ runPc = "idle"
    /\ authProvider = "none" /\ issued = << >> /\ authData = NilData
    /\ caps = NilData /\ opens = 0
    /\ shown = "none" /\ browserOpened = FALSE
    /\ token = "" /\ authErr = "nil"

\* the fields of an InitModel that NewInitModel returns
NoInitModel ==
    [selectedSource |-> "", selectedTarget |-> "", domain |-> "", err |-> "nil"]

\* the values of the interface's variables while dt shows no screen
NoScreen ==
    /\ screen = "none" /\ prog = "none"
    /\ quitKey = "none" /\ launchKey = "none"
    /\ selected = "" /\ quitting = FALSE /\ pending = NoMsg
    /\ initStep = "none" /\ authStep = "none" /\ width = 0 /\ cmd = NoCmd
    /\ initModel = NoInitModel /\ initShown = "none" /\ migrations = << >>

Init ==
    /\ timeout = NewBridge
    /\ NoCall
    /\ NoAdapterRun
    /\ NoRequest
    /\ prev = NoPrev
    /\ NoCredentials
    /\ NoFlow
    /\ NoScreen

\* SetTimeout, at any moment, also while a call is in flight
SetTimeout(d) ==
    /\ timeout' = d
    /\ UNCHANGED << pc, caller, provider, verb, params, stdin, ctxErr, deadline,
                    timeoutCtxErr, timerFired, child, hangs, argv, spawned, runs,
                    execs, stdout, stderr, exitCode, response, err, result,
                    resultErr >>
    /\ UNCHANGED handle
    /\ UNCHANGED outsideBridge

\* faulty variant of AdapterMissing: the existence check is left out
AdapterMissingUnchecked(p) == FALSE

\* os.Stat(adapterPath) reports that the entry point does not exist
AdapterMissing(p) == p \notin InstalledAdapters

\* json.Marshal(params) fails
MarshalFails(ps) == ps = "unmarshalable"

\* context.WithTimeout(ctx, d): the error the new context starts with
WithTimeout(parentErr, d) ==
    IF parentErr # "nil" THEN parentErr
    ELSE IF d <= 0 THEN "DeadlineExceeded"
    ELSE "nil"

\* faulty variant of EntryError: a verb outside the protocol is turned down
EntryErrorChecksVerb(p, v, ps) ==
    IF AdapterMissing(p)
    THEN Errorf("adapter not found", "nil", p, "", EmptyOutput)
    ELSE IF v \notin Verbs
    THEN Errorf("unknown verb", "nil", "", "", EmptyOutput)
    ELSE IF MarshalFails(ps)
    THEN Errorf("failed to marshal params", "json: unsupported type", "", "",
                EmptyOutput)
    ELSE Nil

\* the error Execute returns before it makes a command, Nil when it goes on:
\* the adapter's entry point is looked up, then the params are marshalled
EntryError(p, v, ps) ==
    IF AdapterMissing(p)
    THEN Errorf("adapter not found", "nil", p, "", EmptyOutput)
    ELSE IF MarshalFails(ps)
    THEN Errorf("failed to marshal params", "json: unsupported type", "", "",
                EmptyOutput)
    ELSE Nil

\* Execute, from its entry to the line before cmd.Run: the early returns, then
\* timeoutCtx and cmd are made.  c is the state of the caller's context at entry.
ExecuteEntry(who, p, v, ps, c) ==
    /\ pc = "idle"
    /\ caller' = who /\ provider' = p /\ verb' = v /\ params' = ps
    /\ ctxErr' = c
    /\ execs' = execs + 1
    /\ IF EntryError(p, v, ps) # Nil
       THEN /\ pc' = "returned"
            /\ response' = Nil
            /\ err' = EntryError(p, v, ps)
            /\ UNCHANGED << stdin, deadline, timeoutCtxErr >>
       ELSE /\ pc' = "cmdRun"
            /\ stdin' = IF ps = "nil" THEN "empty" ELSE "json"
            /\ deadline' = timeout
            /\ timeoutCtxErr' = WithTimeout(c, timeout)
            /\ UNCHANGED << response, err >>
    /\ UNCHANGED << timeout, timerFired, child, hangs, argv, spawned, runs, stdout,
                    stderr, exitCode, result, resultErr >>
    /\ UNCHANGED handle
    /\ UNCHANGED outsideBridge

\* a caller calls Execute itself, with any provider, verb and params
CallExecute(p, v, ps, c) == ExecuteEntry("Execute", p, v, ps, c)

\* a caller calls a facade method, which calls Execute with its verb
CallFacade(f, p, c) == ExecuteEntry(f, p, FacadeVerb(f), FacadeParams(f), c)

\* faulty variant of KillIfRunning: the process handle is abandoned, not killed
KillIfRunningAbandons(c) == c

\* the process is killed when its context ends
KillIfRunning(c) == IF c = "running" THEN "killed" ELSE c

\* the timer of timeoutCtx fires: the context ends with DeadlineExceeded and
\* exec's watcher kills the child
TimerFire ==
    /\ pc \in {"cmdRun", "running"}
    /\ deadline > 0
    /\ timeoutCtxErr = "nil"
    /\ timeoutCtxErr' = "DeadlineExceeded"
    /\ timerFired' = TRUE
    /\ child' = KillIfRunning(child)
    /\ UNCHANGED << timeout, pc, caller, provider, verb, params, stdin, ctxErr,
                    deadline, hangs, argv, spawned, runs, execs, stdout, stderr,
                    exitCode, response, err, result, resultErr >>
    /\ UNCHANGED handle
    /\ UNCHANGED outsideBridge

\* faulty variant of CtxDone: the command is not bound to the caller's context,
\* whose end is only noted
CtxDoneIgnored(e) ==
    /\ pc \in {"cmdRun", "running"}
    /\ ctxErr = "nil"
    /\ ctxErr' = e
    /\ UNCHANGED << timeout, pc, caller, provider, verb, params, stdin, deadline,
                    timeoutCtxErr, timerFired, child, hangs, argv, spawned, runs,
                    execs, stdout, stderr, exitCode, response, err, result,
                    resultErr >>
    /\ UNCHANGED handle
    /\ UNCHANGED outsideBridge

\* the caller's context ends during the call: it is cancelled (e = "Canceled") or
\* its own deadline passes (e = "DeadlineExceeded"); timeoutCtx ends with it
CtxDone(e) ==
    /\ pc \in {"cmdRun", "running"}
    /\ ctxErr = "nil"
    /\ ctxErr' = e
    /\ timeoutCtxErr' = IF timeoutCtxErr = "nil" THEN e ELSE timeoutCtxErr
    /\ child' = IF timeoutCtxErr = "nil" THEN KillIfRunning(child) ELSE child
    /\ UNCHANGED << timeout, pc, caller, provider, verb, params, stdin, deadline,
                    timerFired, hangs, argv, spawned, runs, execs, stdout, stderr,
                    exitCode, response, err, result, resultErr >>
    /\ UNCHANGED handle
    /\ UNCHANGED outsideBridge

\* the error cmd.Run returns once the child has been waited for
WaitError(c, code) ==
    CASE c = "killed" -> "signal: killed"
      [] c = "exited" /\ code # 0 -> "exit status"
      [] c = "exited" /\ code = 0 -> "nil"

\* the error cmd.Run returns without having started a child: the executable
\* cannot be started, or the context had ended before the start
StartError(startable, ctxe) ==
    IF ~startable THEN "exec: cannot start"
    ELSE IF ctxe = "DeadlineExceeded" THEN "context deadline exceeded"
    ELSE "context canceled"

\* faulty variant of RunFailed: the deadline is not told apart from the other
\* failures of cmd.Run
RunFailedNoDeadlineCheck(runErr, ctxe, tmo, serr) ==
    Errorf("adapter execution failed", runErr, "", serr, EmptyOutput)

\* faulty variant of RunFailed: a failed run is reported as a BridgeError
RunFailedAsUnknown(runErr, ctxe, tmo, serr) ==
    IF ctxe = "DeadlineExceeded"
    THEN BridgeError(ErrTimeout, TimeoutMessage(tmo), TRUE)
    ELSE BridgeError(ErrUnknown, << "adapter execution failed", serr >>, FALSE)

\* faulty variant of RunFailed: the captured stderr text is left out
RunFailedDropsStderr(runErr, ctxe, tmo, serr) ==
    IF ctxe = "DeadlineExceeded"
    THEN BridgeError(ErrTimeout, TimeoutMessage(tmo), TRUE)
    ELSE Errorf("adapter execution failed", runErr, "", "", EmptyOutput)

\* the error Execute returns when cmd.Run returned the error runErr: ctxe is
\* timeoutCtx.Err(), tmo is b.timeout as read now, serr is stderr.String()
RunFailed(runErr, ctxe, tmo, serr) ==
    IF ctxe = "DeadlineExceeded"
    THEN BridgeError(ErrTimeout, TimeoutMessage(tmo), TRUE)
    ELSE Errorf("adapter execution failed", runErr, "", serr, EmptyOutput)

\* the first n characters of an output
Truncated(out, n) ==
    [out EXCEPT !.raw = SubSeq(@, 1, IF Len(@) < n THEN Len(@) ELSE n)]

\* faulty variant of ParseFailed: only a prefix of the output is included
ParseFailedTruncates(cause, out) ==
    Errorf("failed to parse adapter response", cause, "", "", Truncated(out, 2))

\* the error Execute returns when json.Unmarshal failed with cause: the format
\* appends stdout.String()
ParseFailed(cause, out) ==
    Errorf("failed to parse adapter response", cause, "", "", out)

\* faulty variant of ExecuteTail: an adapter-reported error is returned without
\* the Response it came in
ExecuteTailDropsResponse(runErr, ctxe, tmo, out, serr) ==
    IF runErr # "nil"
    THEN [response |-> Nil, err |-> RunFailed(runErr, ctxe, tmo, serr)]
    ELSE LET u == Unmarshal(out) IN
         IF u.err # "nil"
         THEN [response |-> Nil, err |-> ParseFailed(u.err, out)]
         ELSE IF ~u.response.OK /\ u.response.Error # Nil
         THEN [response |-> Nil, err |-> u.response.Error]
         ELSE [response |-> u.response, err |-> Nil]

\* Execute, from the return of cmd.Run to its own return: runErr is what cmd.Run
\* returned, ctxe is timeoutCtx.Err(), tmo is b.timeout as read now
ExecuteTail(runErr, ctxe, tmo, out, serr) ==
    IF runErr # "nil"
    THEN [response |-> Nil, err |-> RunFailed(runErr, ctxe, tmo, serr)]
    ELSE LET u == Unmarshal(out) IN
         IF u.err # "nil"
         THEN [response |-> Nil, err |-> ParseFailed(u.err, out)]
         ELSE IF ~u.response.OK /\ u.response.Error # Nil
         THEN [response |-> u.response, err |-> u.response.Error]
         ELSE [response |-> u.response, err |-> Nil]

\* cmd.Run starts the child process: bun runs the adapter with the verb as its
\* argument.  h: this run of the adapter never exits on its own.
CmdStart(h) ==
    /\ pc = "cmdRun"
    /\ timeoutCtxErr = "nil"
    /\ pc' = "running"
    /\ runs' = runs + 1
    /\ spawned' = spawned + 1
    /\ child' = "running"
    /\ hangs' = h
    /\ argv' = verb
    /\ UNCHANGED << timeout, caller, provider, verb, params, stdin, ctxErr, deadline,
                    timeoutCtxErr, timerFired, execs, stdout, stderr, exitCode,
                    response, err, result, resultErr >>
    /\ handle' = "open"
    /\ UNCHANGED outsideBridge

\* cmd.Run returns at once, no child started, and Execute returns what its tail
\* makes of that error
CmdStartFails(startable) ==
    /\ pc = "cmdRun"
    /\ ~startable \/ timeoutCtxErr # "nil"
    /\ runs' = runs + 1
    /\ LET r == ExecuteTail(StartError(startable, timeoutCtxErr), timeoutCtxErr,
                            timeout, stdout, stderr)
       IN  /\ response' = r.response
           /\ err' = r.err
    /\ pc' = "returned"
    /\ UNCHANGED << timeout, caller, provider, verb, params, stdin, ctxErr, deadline,
                    timeoutCtxErr, timerFired, child, hangs, argv, spawned, execs,
                    stdout, stderr, exitCode, result, resultErr >>
    /\ UNCHANGED handle
    /\ UNCHANGED outsideBridge

\* the adapter process exits on its own, having written out and serr
ChildExit(out, code, serr) ==
    /\ pc = "running"
    /\ child = "running"
    /\ ~hangs
    /\ child' = "exited"
    /\ stdout' = out
    /\ stderr' = serr
    /\ exitCode' = code
    /\ UNCHANGED << timeout, pc, caller, provider, verb, params, stdin, ctxErr,
                    deadline, timeoutCtxErr, timerFired, hangs, argv, spawned, runs,
                    execs, response, err, result, resultErr >>
    /\ UNCHANGED handle
    /\ UNCHANGED outsideBridge

\* faulty variant of RunReturns: a recoverable error makes Execute run the
\* command again, up to maxRetries times
RunReturnsRetries ==
    /\ pc = "running"
    /\ child \in {"exited", "killed"}
    /\ LET r == ExecuteTail(WaitError(child, exitCode), timeoutCtxErr, timeout,
                            stdout, stderr)
       IN  IF r.err.type = "BridgeError" /\ r.err.recoverable /\ runs < maxRetries
           THEN /\ pc' = "cmdRun"
                /\ timeoutCtxErr' = WithTimeout(ctxErr, deadline)
                /\ UNCHANGED << response, err >>
           ELSE /\ pc' = "returned"
                /\ response' = r.response
                /\ err' = r.err
                /\ UNCHANGED timeoutCtxErr
    /\ UNCHANGED << timeout, caller, provider, verb, params, stdin, ctxErr, deadline,
                    timerFired, child, hangs, argv, spawned, runs, execs, stdout,
                    stderr, exitCode, result, resultErr >>
    /\ handle' = "released"
    /\ UNCHANGED outsideBridge

\* faulty variant of RunReturns: the command is started and not waited for,
\* and Execute goes on with what the buffers hold
RunReturnsNoWait ==
    /\ pc = "running"
    /\ LET r == ExecuteTail("nil", timeoutCtxErr, timeout, stdout, stderr)
       IN  /\ response' = r.response
           /\ err' = r.err
    /\ pc' = "returned"
    /\ UNCHANGED << timeout, caller, provider, verb, params, stdin, ctxErr, deadline,
                    timeoutCtxErr, timerFired, child, hangs, argv, spawned, runs,
                    execs, stdout, stderr, exitCode, result, resultErr, handle >>
    /\ UNCHANGED outsideBridge

\* cmd.Run returns after the child has gone, and Execute runs to its return
RunReturns ==
    /\ pc = "running"
    /\ child \in {"exited", "killed"}
    /\ LET r == ExecuteTail(WaitError(child, exitCode), timeoutCtxErr, timeout,
                            stdout, stderr)
       IN  /\ response' = r.response
           /\ err' = r.err
    /\ pc' = "returned"
    /\ UNCHANGED << timeout, caller, provider, verb, params, stdin, ctxErr, deadline,
                    timeoutCtxErr, timerFired, child, hangs, argv, spawned, runs,
                    execs, stdout, stderr, exitCode, result, resultErr >>
    /\ handle' = "released"
    /\ UNCHANGED outsideBridge

\* faulty variant of FacadeResult: Execute's error is wrapped in a new error
FacadeResultWraps(f, resp, e) ==
    IF e # Nil
    THEN [result |-> Nil, err |-> Errorf(FacadeParseText(f), "wrapped", "", "", EmptyOutput)]
    ELSE LET m == mapToStruct(resp.Data, f) IN
         IF m.err # "nil"
         THEN [result |-> Nil,
               err |-> Errorf(FacadeParseText(f), m.err, "", "", EmptyOutput)]
         ELSE [result |-> m.data, err |-> Nil]

\* what a facade method returns, given what Execute returned to it
FacadeResult(f, resp, e) ==
    IF e # Nil
    THEN [result |-> Nil, err |-> e]
    ELSE LET m == mapToStruct(resp.Data, f) IN
         IF m.err # "nil"
         THEN [result |-> Nil,
               err |-> Errorf(FacadeParseText(f), m.err, "", "", EmptyOutput)]
         ELSE [result |-> m.data, err |-> Nil]

\* the call returns to the caller: Execute's own return values, or the facade
\* method's
Return ==
    /\ pc = "returned"
    /\ pc' = "done"
    /\ IF caller = "Execute"
       THEN /\ result' = response
            /\ resultErr' = err
       ELSE LET r == FacadeResult(caller, response, err) IN
            /\ result' = r.result
            /\ resultErr' = r.err
    /\ UNCHANGED << timeout, caller, provider, verb, params, stdin, ctxErr, deadline,
                    timeoutCtxErr, timerFired, child, hangs, argv, spawned, runs,
                    execs, stdout, stderr, exitCode, response, err >>
    /\ UNCHANGED handle
    /\ UNCHANGED outsideBridge

\* the caller is done with the call; the next one starts afresh
NextCall ==
    /\ pc = "done"
    /\ pc' = "idle"
    /\ caller' = "none" /\ provider' = "none" /\ verb' = "none" /\ params' = "none"
    /\ stdin' = "none"
    /\ ctxErr' = "nil" /\ deadline' = -1 /\ timeoutCtxErr' = "nil"
    /\ timerFired' = FALSE
    /\ child' = "none" /\ hangs' = FALSE /\ argv' = "none"
    /\ spawned' = 0 /\ runs' = 0 /\ execs' = 0
    /\ stdout' = EmptyOutput /\ stderr' = "" /\ exitCode' = -1
    /\ response' = Nil /\ err' = Nil /\ result' = Nil /\ resultErr' = Nil
    /\ handle' = "none"
    /\ UNCHANGED timeout
    /\ UNCHANGED outsideBridge

\* the caller is done with a call that ran its adapter to a clean exit, and
\* will call again: what the call came to is kept for comparison
CallAgain ==
    /\ pc = "done"
    /\ child = "exited" /\ exitCode = 0
    /\ prev' = [caller |-> caller, provider |-> provider, timeout |-> timeout,
                stdout |-> stdout, result |-> result, resultErr |-> resultErr]
    /\ pc' = "idle"
    /\ caller' = "none" /\ provider' = "none" /\ verb' = "none" /\ params' = "none"
    /\ stdin' = "none"
    /\ ctxErr' = "nil" /\ deadline' = -1 /\ timeoutCtxErr' = "nil"
    /\ timerFired' = FALSE
    /\ child' = "none" /\ hangs' = FALSE /\ argv' = "none"
    /\ spawned' = 0 /\ runs' = 0 /\ execs' = 0
    /\ stdout' = EmptyOutput /\ stderr' = "" /\ exitCode' = -1
    /\ response' = Nil /\ err' = Nil /\ result' = Nil /\ resultErr' = Nil
    /\ handle' = "none"
    /\ UNCHANGED timeout
    /\ UNCHANGED outsideCalls

CtxStates == {"nil", "Canceled", "DeadlineExceeded"}

ParamChoices == {"nil", "value", "unmarshalable"}

Next ==
    \/ \E d \in TimeoutChoices : SetTimeout(d)
    \/ \E p \in Providers, v \in DirectVerbs, ps \in ParamChoices,
          c \in CtxStates : CallExecute(p, v, ps, c)
    \/ \E f \in Facades, p \in Providers, c \in CtxStates : CallFacade(f, p, c)
    \/ \E h \in BOOLEAN : CmdStart(h)
    \/ \E b \in BOOLEAN : CmdStartFails(b)
    \/ \E e \in Endings : ChildExit(e[1], e[2], e[3])
    \/ TimerFire
    \/ \E e \in {"Canceled", "DeadlineExceeded"} : CtxDone(e)
    \/ RunReturns
    \/ Return
    \/ NextCall

Spec == Init /\ [][Next]_vars

\* Capabilities called again and again on one Bridge, with a context that
\* does not end, SetTimeout in between or during the calls
CapabilitiesNext ==
    \/ \E d \in TimeoutChoices : SetTimeout(d)
    \/ \E p \in Providers : CallFacade("Capabilities", p, "nil")
    \/ \E h \in BOOLEAN : CmdStart(h)
    \/ \E b \in BOOLEAN : CmdStartFails(b)
    \/ \E e \in Endings : ChildExit(e[1], e[2], e[3])
    \/ TimerFire
    \/ RunReturns
    \/ Return
    \/ NextCall
    \/ CallAgain

CapabilitiesSpec == Init /\ [][CapabilitiesNext]_vars

\* The Go runtime runs its timers and its goroutines: an armed timer fires,
\* cmd.Run returns once the child has gone, and a return reaches the caller.
Fairness ==
    /\ WF_vars(TimerFire)
    /\ WF_vars(RunReturns)
    /\ WF_vars(Return)

LiveSpec == Spec /\ Fairness


-----------------------------------------------------------------------------
(* The Vercel adapter executable: adapters/vercel/index.ts, built on the   *)
(* BaseAdapter of adapters/base.ts.  The Vercel API is the environment:    *)
(* each fetch ends in one of FetchOutcomes.                                *)

\* BaseAdapter.version
version == "1.0.0"

\* BaseAdapter.success: no "error" member
success(data) == Output("object", << >>, "true", NoWireError, data, version)

\* faulty variant of error: the version is left out of a failure
errorNoVersion(e) == Output("object", << >>, "false", e, "absent", "absent")

\* BaseAdapter.error: no "data" member
error(e) == Output("object", << >>, "false", e, "absent", version)

\* faulty variant of unsupported: the failure is marked recoverable
unsupportedRecoverable(v) ==
    error(WireError(ErrUnsupported, "is not supported by this adapter", "true"))

\* BaseAdapter.unsupported
unsupported(v) ==
    error(WireError(ErrUnsupported, "is not supported by this adapter", "false"))

\* what a verb handler does: it returns a response, or it throws
Returns(r) == [threw |-> FALSE, response |-> r]

Throws == [threw |-> TRUE, response |-> EmptyOutput]

\* how a fetch of the Vercel API ends: it rejects ("network"), it answers 200
\* with the body expected or with another JSON object ("200odd"), it answers
\* 401, 404 or 500 with a JSON body, or it answers an error status with a body
\* that is no JSON ("nojson")
FetchOutcomes == {"network", "200", "200odd", "401", "404", "500", "nojson"}

FetchOk(h) == h \in {"200", "200odd"}

\* params is "undefined", "null", or an object: with a token ("noProject"),
\* with a token and project_id ("project"), with a token, project_id and
\* env_vars ("envVars").  Destructuring undefined or null throws a TypeError.
NotDestructurable(ps) == ps \in {"undefined", "null"}

\* the catch clause of fetchConfig and syncEnv
NetworkError == Returns(error(WireError(ErrNetworkError, "fetch failed", "true")))

\* VercelAdapter.capabilities
capabilities == Returns(success("good"))

\* VercelAdapter.authStart
authStart(ps) == Returns(success("good"))

\* VercelAdapter.authRefresh
authRefresh(ps) == Returns(unsupported("auth:refresh"))

\* VercelAdapter.fetchConfig: h1 ends the first fetch, h2 the fetch of the
\* environment variables
fetchConfig(ps, h1, h2) ==
    IF NotDestructurable(ps) THEN Throws
    ELSE IF h1 \in {"network", "nojson"} THEN NetworkError
    ELSE IF ps = "noProject"
    THEN IF ~FetchOk(h1)
         THEN Returns(error(WireError(
                  IF h1 = "401" THEN ErrAuthFailed ELSE ErrProviderError,
                  "Failed to fetch projects",
                  IF h1 = "401" THEN "true" ELSE "false")))
         ELSE IF h1 = "200odd" THEN NetworkError
         ELSE Returns(error(WireError(ErrInvalidParams,
                  "Multiple projects found. Please specify project_id.", "true")))
    ELSE IF ~FetchOk(h1)
         THEN Returns(error(WireError(
                  IF h1 = "404" THEN ErrNotFound ELSE ErrProviderError,
                  "Failed to fetch project", "false")))
         ELSE IF h2 = "network" THEN NetworkError
         ELSE Returns(success("good"))

\* VercelAdapter.syncEnv: h1 ends the fetch made for the one variable
syncEnv(ps, h1) ==
    IF NotDestructurable(ps) THEN Throws
    ELSE IF ps # "envVars" THEN NetworkError
    ELSE IF h1 = "network" THEN NetworkError
    ELSE Returns(success("good"))

\* VercelAdapter.deployPreview
deployPreview(ps) == Returns(unsupported("deploy:preview"))

\* VercelAdapter.dnsUpdate
dnsUpdate(ps) == Returns(unsupported("dns:update"))

\* VercelAdapter.dnsRollback
dnsRollback(ps) == Returns(unsupported("dns:rollback"))

\* the switch of BaseAdapter.execute
Dispatch(v, ps, h1, h2) ==
    CASE v = "capabilities" -> capabilities
      [] v = "auth:start" -> authStart(ps)
      [] v = "auth:refresh" -> authRefresh(ps)
      [] v = "fetch:config" -> fetchConfig(ps, h1, h2)
      [] v = "sync:env" -> syncEnv(ps, h1)
      [] v = "deploy:preview" -> deployPreview(ps)
      [] v = "dns:update" -> dnsUpdate(ps)
      [] v = "dns:rollback" -> dnsRollback(ps)
      [] OTHER -> Returns(error(WireError(ErrInvalidParams, "Unknown verb", "false")))

\* the response BaseAdapter.execute writes: the handler's, or the UNKNOWN
\* failure of the catch clause
execute(v, ps, h1, h2) ==
    LET r == Dispatch(v, ps, h1, h2) IN
    IF r.threw
    THEN error(WireError(ErrUnknown, "TypeError", "false"))
    ELSE r.response

\* process.argv[2]: a verb, a word that is no verb, or nothing
ArgvChoices == Verbs \cup OtherVerbs \cup {"undefined"}

IsTTYChoices == {"true", "false", "undefined"}

\* texts on standard input: nothing, blanks, text that is no JSON, and the JSON
\* texts of the ParamValues
StdinTexts ==
    { "", "  ", "{oops", "null", "{\"token\":\"t\"}",
      "{\"token\":\"t\",\"project_id\":\"p\"}",
      "{\"token\":\"t\",\"project_id\":\"p\",\"env_vars\":[{\"key\":\"K\"}]}" }

\* stdin.trim()
Trim(text) == IF text = "  " THEN "" ELSE text

\* faulty variant of JSONParse: text that is no JSON is read as no params
JSONParseLenient(text) ==
    CASE text = "null" -> "null"
      [] text = "{\"token\":\"t\"}" -> "noProject"
      [] text = "{\"token\":\"t\",\"project_id\":\"p\"}" -> "project"
      [] text = "{\"token\":\"t\",\"project_id\":\"p\",\"env_vars\":[{\"key\":\"K\"}]}" ->
            "envVars"
      [] OTHER -> "undefined"

\* JSON.parse(stdin): the value, or "SyntaxError" when it throws
JSONParse(text) ==
    CASE text = "null" -> "null"
      [] text = "{\"token\":\"t\"}" -> "noProject"
      [] text = "{\"token\":\"t\",\"project_id\":\"p\"}" -> "project"
      [] text = "{\"token\":\"t\",\"project_id\":\"p\",\"env_vars\":[{\"key\":\"K\"}]}" ->
            "envVars"
      [] OTHER -> "SyntaxError"

\* the entry point reads params: standard input is read only when isTTY is
\* false, and parsed only when it holds more than blanks
ReadParams(tty, text) ==
    IF tty = "false" /\ Trim(text) # "" THEN JSONParse(text) ELSE "undefined"

\* the adapter is started: the entry point, up to the call of execute, or to
\* process.exit(1) when standard input cannot be parsed
AdapterInvoke(v, tty, text) ==
    /\ adapterPc = "none"
    /\ adapterVerb' = v /\ isTTY' = tty /\ adapterStdin' = text
    /\ IF ReadParams(tty, text) = "SyntaxError"
       THEN /\ adapterStderr' = Append(adapterStderr, "Failed to parse stdin JSON:")
            /\ adapterExit' = 1
            /\ adapterPc' = "exited"
            /\ UNCHANGED adapterParams
       ELSE /\ adapterParams' = ReadParams(tty, text)
            /\ adapterPc' = "execute"
            /\ UNCHANGED << adapterStderr, adapterExit >>
    /\ UNCHANGED adapterStdout
    /\ UNCHANGED outsideAdapter

\* BaseAdapter.execute: the handler runs, with its fetches ending in h1 and h2,
\* and the response is written as one line
AdapterExecute(h1, h2) ==
    /\ adapterPc = "execute"
    /\ adapterStdout' =
          Append(adapterStdout, execute(adapterVerb, adapterParams, h1, h2))
    /\ adapterPc' = "written"
    /\ UNCHANGED << adapterVerb, isTTY, adapterStdin, adapterParams, adapterStderr,
                    adapterExit >>
    /\ UNCHANGED outsideAdapter

\* the script has run to its end
AdapterExit ==
    /\ adapterPc = "written"
    /\ adapterExit' = 0
    /\ adapterPc' = "exited"
    /\ UNCHANGED << adapterVerb, isTTY, adapterStdin, adapterParams, adapterStdout,
                    adapterStderr >>
    /\ UNCHANGED outsideAdapter

\* the next run of the executable is a new process
AdapterNextRun ==
    /\ adapterPc = "exited"
    /\ adapterPc' = "none"
    /\ adapterVerb' = "none" /\ isTTY' = "none" /\ adapterStdin' = "none"
    /\ adapterParams' = "none"
    /\ adapterStdout' = << >> /\ adapterStderr' = << >> /\ adapterExit' = -1
    /\ UNCHANGED outsideAdapter

AdapterNext ==
    \/ \E v \in ArgvChoices, tty \in IsTTYChoices, text \in StdinTexts :
          AdapterInvoke(v, tty, text)
    \/ \E h1 \in FetchOutcomes, h2 \in FetchOutcomes : AdapterExecute(h1, h2)
    \/ AdapterExit
    \/ AdapterNextRun

AdapterSpec == Init /\ [][AdapterNext]_vars


-----------------------------------------------------------------------------
(* A request on its way: the params struct of a facade method is marshalled  *)
(* by Execute, written to the command's standard input, and parsed by the    *)
(* entry point of the adapter.                                               *)

Field(name, kind, omit) == [name |-> name, kind |-> kind, omitempty |-> omit]

\* the params struct of each facade method: its JSON names, the kinds of its
\* fields, and the fields tagged omitempty
ParamFields(f) ==
    CASE f = "Capabilities" -> {}
      [] f = "AuthStart" ->
            { Field("provider", "string", FALSE),
              Field("callback_url", "string", TRUE) }
      [] f = "FetchConfig" ->
            { Field("provider", "string", FALSE), Field("token", "string", FALSE),
              Field("project_id", "string", TRUE) }
      [] f = "SyncEnv" ->
            { Field("provider", "string", FALSE), Field("token", "string", FALSE),
              Field("project_id", "string", FALSE),
              Field("env_vars", "slice", FALSE) }
      [] f = "DeployPreview" ->
            { Field("provider", "string", FALSE), Field("token", "string", FALSE),
              Field("project_id", "string", FALSE),
              Field("branch", "string", TRUE), Field("env", "map", TRUE) }
      [] f = "DnsUpdate" ->
            { Field("provider", "string", FALSE), Field("token", "string", FALSE),
              Field("domain", "string", FALSE),
              Field("record_type", "string", FALSE),
              Field("record_name", "string", FALSE),
              Field("record_value", "string", FALSE), Field("ttl", "int", TRUE) }
      [] f = "DnsRollback" ->
            { Field("provider", "string", FALSE), Field("token", "string", FALSE),
              Field("record_id", "string", FALSE),
              Field("rollback_to", "string", FALSE) }

FieldNames(f) == { fld.name : fld \in ParamFields(f) }

FieldOf(f, n) == CHOOSE fld \in ParamFields(f) : fld.name = n

\* the Go values of a field: the zero value or another one; a slice or a map
\* is nil, empty or filled
GoValues(kind) ==
    IF kind \in {"slice", "map"} THEN {"nil", "empty", "set"} ELSE {"zero", "set"}

\* the values a facade method is called with; the provider is always given
Payloads(f) ==
    { p \in [FieldNames(f) -> {"zero", "set", "nil", "empty"}] :
        /\ \A n \in FieldNames(f) : p[n] \in GoValues(FieldOf(f, n).kind)
        /\ "provider" \in FieldNames(f) => p["provider"] = "set" }

\* what omitempty counts as empty: "", 0, and a nil or empty slice or map
IsEmptyValue(v) == v \in {"zero", "nil", "empty"}

\* the JSON text json.Marshal writes for a value
EncodeValue(kind, v) ==
    CASE kind = "string" -> IF v = "zero" THEN "\"\"" ELSE "\"v\""
      [] kind = "int" -> IF v = "zero" THEN "0" ELSE "7"
      [] kind = "slice" ->
            IF v = "nil" THEN "null" ELSE IF v = "empty" THEN "[]" ELSE "[1]"
      [] kind = "map" ->
            IF v = "nil" THEN "null" ELSE IF v = "empty" THEN "{}" ELSE "{\"k\":1}"

\* faulty variant of Marshal: the omitempty tags are not honoured
MarshalNoOmit(f, p) ==
    [n \in FieldNames(f) |-> EncodeValue(FieldOf(f, n).kind, p[n])]

\* json.Marshal(params): the members of the JSON object, "absent" for a member
\* that is left out
Marshal(f, p) ==
    [n \in FieldNames(f) |->
        IF FieldOf(f, n).omitempty /\ IsEmptyValue(p[n])
        THEN "absent"
        ELSE EncodeValue(FieldOf(f, n).kind, p[n])]

\* the JavaScript value JSON.parse makes of a member; a member that is not
\* there reads as undefined
DecodeValue(text) ==
    CASE text = "absent" -> "undefined"
      [] text = "\"\"" -> "emptyString"
      [] text = "\"v\"" -> "string"
      [] text = "0" -> "zero"
      [] text = "7" -> "number"
      [] text = "null" -> "null"
      [] text = "[]" -> "emptyArray"
      [] text = "[1]" -> "array"
      [] text = "{}" -> "emptyObject"
      [] text = "{\"k\":1}" -> "object"

\* JSON.parse of an object
ParseObject(obj) == [n \in DOMAIN obj |-> DecodeValue(obj[n])]

NoPayload == [nil |-> TRUE, fields |-> << >>]

NoBytes == [bytes |-> "empty", object |-> << >>]

Undefined == [value |-> "undefined", fields |-> << >>]

\* a facade method is called with the params p and Execute makes the command:
\* the verb is an argument, the marshalled params are its standard input;
\* Capabilities passes nil params and nothing is marshalled
RtSend(f, p) ==
    /\ rtPc = "idle"
    /\ rtFacade' = f
    /\ rtSent' = IF f = "Capabilities" THEN NoPayload ELSE [nil |-> FALSE, fields |-> p]
    /\ rtArgv' = FacadeVerb(f)
    /\ rtStdin' = IF f = "Capabilities"
                  THEN NoBytes
                  ELSE [bytes |-> "json", object |-> Marshal(f, p)]
    /\ rtPc' = "sent"
    /\ UNCHANGED << rtVerb, rtReceived >>
    /\ UNCHANGED outsideRoundTrip

\* the entry point of the adapter reads process.argv[2] and its piped standard
\* input: empty input leaves params undefined
RtReceive ==
    /\ rtPc = "sent"
    /\ rtVerb' = rtArgv
    /\ rtReceived' = IF rtStdin.bytes = "empty"
                     THEN Undefined
                     ELSE [value |-> "object", fields |-> ParseObject(rtStdin.object)]
    /\ rtPc' = "received"
    /\ UNCHANGED << rtFacade, rtSent, rtArgv, rtStdin >>
    /\ UNCHANGED outsideRoundTrip

\* the next request
RtDone ==
    /\ rtPc = "received"
    /\ rtPc' = "idle"
    /\ rtFacade' = "none" /\ rtSent' = NoPayload /\ rtArgv' = "none"
    /\ rtStdin' = NoBytes /\ rtVerb' = "none" /\ rtReceived' = Undefined
    /\ UNCHANGED outsideRoundTrip

RoundTripNext ==
    \/ \E f \in Facades : \E p \in Payloads(f) : RtSend(f, p)
    \/ RtReceive
    \/ RtDone

RoundTripSpec == Init /\ [][RoundTripNext]_vars


-----------------------------------------------------------------------------
(* Properties *)

\* Execute has returned
Returned == pc \in {"returned", "done"}

\* the child exited on its own with status 0
CleanExit == child = "exited" /\ exitCode = 0

\* e is the engine's TIMEOUT error
IsTimeoutError(e) ==
    /\ e.type = "BridgeError"
    /\ e.code = ErrTimeout
    /\ e.recoverable = TRUE

\* C1: when the timer armed with the bridge's timeout (30 by default, or the
\* value given to SetTimeout) fires while the child is still running, the child
\* is killed, and Execute returns no Response and a BridgeError with code
\* TIMEOUT and recoverable true, which a facade method passes on.
C1_TimeoutKillsAndReports ==
    /\ timerFired => child # "running" /\ deadline \in TimeoutChoices /\ deadline > 0
    /\ (timerFired /\ child = "killed" /\ Returned) =>
          response = Nil /\ IsTimeoutError(err)
    /\ (timerFired /\ child = "killed" /\ pc = "done") =>
          result = Nil /\ resultErr = err

C1_Witness ==
    /\ pc = "done" /\ caller = "FetchConfig"
    /\ timerFired /\ child = "killed" /\ deadline = defaultTimeout

C3_MissingAdapterNotSpawned ==
    provider \in Providers \ InstalledAdapters =>
        /\ Returned
        /\ spawned = 0 /\ runs = 0 /\ child = "none"
        /\ response = Nil
        /\ err.type = "error" /\ err.text = "adapter not found"
        /\ err.provider = provider
        /\ pc = "done" => result = Nil /\ resultErr = err

C3_Witness ==
    /\ pc = "done" /\ provider = "netlify" /\ verb = "bogus:verb"
    /\ resultErr.type = "error"


\* C4 as stated: a call whose verb is not one of the eight never gets a child.
C4_UnknownVerbNeverSpawned ==
    verb \in OtherVerbs => spawned = 0 /\ child = "none"

\* C4, amended: Execute does not look at the verb.  A call with a verb outside
\* the eight that finds the adapter and marshals its params goes on to cmd.Run,
\* the child it starts gets that verb as its argument, and when no child was
\* started the error is that of the failed start, not a rejection of the verb.
C4_UnknownVerbPassedToChild ==
    (verb \in OtherVerbs /\ provider \in InstalledAdapters /\ params # "unmarshalable") =>
        /\ pc \in {"cmdRun", "running", "returned", "done"}
        /\ spawned = 1 => argv = verb
        /\ Returned => runs = 1
        /\ (Returned /\ spawned = 0) =>
              \/ IsTimeoutError(err)
              \/ err.type = "error" /\ err.text = "adapter execution failed"

C4_Witness ==
    /\ pc = "done" /\ verb = "bogus:verb" /\ spawned = 1 /\ argv = "bogus:verb"
    /\ CleanExit /\ resultErr = Nil

\* the output is a JSON object without the members the envelope requires: no
\* "ok", or "ok": false and no "error"
LacksRequiredFields(out) ==
    /\ out.kind = "object"
    /\ \/ out.ok = "absent"
       \/ out.ok = "false" /\ out.error = NoWireError

\* e is the error Execute makes of output it cannot parse
IsMalformedResponseError(e) ==
    e.type = "error" /\ e.text = "failed to parse adapter response"

\* C5 as stated: after a clean exit with a JSON object that lacks required
\* envelope members, Execute returns the malformed-response error and no
\* Response.
C5_MissingFieldsRejected ==
    (Returned /\ CleanExit /\ LacksRequiredFields(stdout)) =>
        response = Nil /\ IsMalformedResponseError(err)

\* C6 as stated: after a clean exit with output that is no JSON, the error is no
\* BridgeError and includes a prefix of the output whose length stays under a
\* bound however long the output is: the longest output is not included whole.
C6_OutputPrefixBounded ==
    (Returned /\ CleanExit /\ stdout.kind = "text") =>
        /\ IsMalformedResponseError(err)
        /\ err.output.raw = SubSeq(stdout.raw, 1, Len(err.output.raw))
        /\ Len(stdout.raw) = MaxOut => Len(err.output.raw) < MaxOut

\* C6, amended: after a clean exit with output that is no JSON, Execute returns
\* no Response and an error that is no BridgeError and includes the whole
\* output, however long it is.
C6_WholeOutputIncluded ==
    (Returned /\ CleanExit /\ stdout.kind = "text") =>
        /\ response = Nil
        /\ IsMalformedResponseError(err)
        /\ err.output = stdout
        /\ Len(err.output.raw) = Len(stdout.raw)
        /\ pc = "done" => result = Nil /\ resultErr = err

C6_Witness ==
    /\ pc = "done" /\ CleanExit /\ stdout.kind = "text" /\ Len(stdout.raw) = MaxOut
    /\ resultErr.type = "error"

\* the output is an envelope with "ok": false and an "error"
FailureEnvelope(out) ==
    out.kind = "object" /\ out.ok = "false" /\ out.error # NoWireError

\* C7: after a clean exit with an envelope ok:false that carries an error,
\* Execute returns a BridgeError with the code, message and recoverable of the
\* envelope, the facade method returns that same error, and it returns no typed
\* data.
C7_AdapterErrorPropagated ==
    (Returned /\ CleanExit /\ FailureEnvelope(stdout)) =>
        /\ err.type = "BridgeError"
        /\ stdout.error.code # "absent" => err.code = stdout.error.code
        /\ stdout.error.message # "absent" => err.message = << stdout.error.message >>
        /\ stdout.error.recoverable # "absent" =>
              err.recoverable = (stdout.error.recoverable = "true")
        /\ pc = "done" => resultErr = err
        /\ (pc = "done" /\ caller \in Facades) => result = Nil

C7_Witness ==
    /\ pc = "done" /\ caller = "FetchConfig" /\ CleanExit
    /\ stdout.ok = "false" /\ stdout.error.code = ErrAuthFailed
    /\ resultErr = BridgeError(ErrAuthFailed, << "bad token" >>, TRUE)
    /\ result = Nil

\* cmd.Run failed and no deadline had ended timeoutCtx: the process could not
\* be started, or it exited with a status other than 0
ProcessFailed ==
    /\ runs = 1
    /\ \/ child = "none"
       \/ child = "exited" /\ exitCode # 0
    /\ timeoutCtxErr # "DeadlineExceeded"

\* C8 as stated: when the process fails and the deadline has not elapsed,
\* Execute returns a BridgeError with code UNKNOWN.
C8_ProcessFailureIsUnknown ==
    (Returned /\ ProcessFailed) =>
        err.type = "BridgeError" /\ err.code = ErrUnknown

\* C8, amended: when the process fails and no deadline has ended timeoutCtx,
\* Execute returns no Response and an error that is no BridgeError (it has no
\* code): "adapter execution failed", wrapping cmd.Run's error and carrying the
\* captured stderr text.
C8_ProcessFailureIsPlainError ==
    (Returned /\ ProcessFailed) =>
        /\ response = Nil
        /\ err.type = "error" /\ err.text = "adapter execution failed"
        /\ err.cause # "nil"
        /\ err.stderr = stderr
        /\ pc = "done" => result = Nil /\ resultErr = err

C8_Witness ==
    /\ pc = "done" /\ child = "exited" /\ exitCode = 1 /\ stderr = "boom"
    /\ timeoutCtxErr = "nil" /\ resultErr.type = "error"

\* the call found its adapter and marshalled its params
PassedEntry ==
    provider \in InstalledAdapters /\ params \in {"nil", "value"}

\* C9 as stated: a call that passes adapter resolution and marshalling spawns
\* exactly one child.
C9_ExactlyOneChild ==
    (Returned /\ PassedEntry) => spawned = 1

\* C9, amended: a call that passes adapter resolution and marshalling runs the
\* command exactly once, and every facade method calls Execute exactly once;
\* that one run starts one child, or none when the start fails, and nothing
\* that comes back, recoverable or not, leads to a second run or a second
\* child.
C9_OneRunAtMostOneChild ==
    /\ spawned <= 1 /\ runs <= 1 /\ execs <= 1
    /\ Returned => execs = 1
    /\ (Returned /\ PassedEntry) =>
          /\ runs = 1
          /\ spawned = 1 <=> child # "none"
          /\ spawned = 0 =>
                /\ response = Nil
                /\ \/ IsTimeoutError(err)
                   \/ err.type = "error" /\ err.text = "adapter execution failed"

C9_Witness ==
    /\ pc = "done" /\ caller \in Facades /\ spawned = 1 /\ runs = 1 /\ execs = 1
    /\ resultErr.type = "BridgeError" /\ resultErr.recoverable

\* the codes the design document's retry policy names as recoverable
RetriedCodes == {ErrNetworkError, ErrTimeout, ErrRateLimited}

\* C10 as stated: a failure with a recoverable error of the retry policy is
\* reported to the caller only after maxRetries attempts.
C10_RecoverableRetried ==
    (pc = "done" /\ resultErr.type = "BridgeError" /\ resultErr.recoverable
       /\ resultErr.code \in RetriedCodes) =>
        runs = maxRetries

\* the output is an object whose "ok" is not true and that has an "error"
ReportsFailure(out) ==
    out.kind = "object" /\ out.ok \in {"false", "absent"} /\ out.error # NoWireError

\* the terminal outcome a caller of Execute reads off the two returned values
Outcome(resp, e) ==
    CASE e = Nil -> "Succeeded"
      [] e # Nil /\ e.type = "BridgeError" /\ resp # Nil -> "Failed"
      [] e # Nil /\ e.type = "BridgeError" /\ resp = Nil -> "TimedOut"
      [] e # Nil /\ e.type = "error" /\ e.text = "failed to parse adapter response" ->
            "MalformedResponse"
      [] OTHER -> "NotRun"

\* C11 as stated: every returned call is in one of the four outcomes, and a
\* BridgeError is returned only for a failure the adapter reported.
C11_FourOutcomesOnlyFailedCoded ==
    Returned =>
        /\ Outcome(response, err) \in {"Succeeded", "Failed", "TimedOut",
                                        "MalformedResponse"}
        /\ err.type = "BridgeError" => CleanExit /\ ReportsFailure(stdout)

\* C11, amended: Execute's two returned values put every returned call in
\* exactly one of five outcomes, each of which is what happened: no error
\* (Succeeded), a BridgeError with the Response it came in (Failed, reported by
\* the adapter), a BridgeError with code TIMEOUT and no Response (TimedOut, made
\* by the engine), the parse error (MalformedResponse), or another plain error
\* (adapter missing, params not marshalled, process failure).  Failed and
\* TimedOut both carry a code and recoverable; an adapter-reported TIMEOUT
\* differs from the engine's by its Response, which a facade method drops.
C11_OutcomesTellWhatHappened ==
    Returned =>
        LET o == Outcome(response, err)
            ran == PassedEntry /\ CleanExit
        IN  /\ o = "Succeeded" <=>
                  ran /\ Unmarshal(stdout).err = "nil" /\ ~ReportsFailure(stdout)
            /\ o = "Failed" <=> ran /\ ReportsFailure(stdout)
            /\ o = "MalformedResponse" <=> ran /\ Unmarshal(stdout).err # "nil"
            /\ o = "TimedOut" <=>
                  PassedEntry /\ ~CleanExit /\ timeoutCtxErr = "DeadlineExceeded"
            /\ o = "TimedOut" => IsTimeoutError(err)
            /\ o = "NotRun" <=>
                  ~PassedEntry \/ (~CleanExit /\ timeoutCtxErr # "DeadlineExceeded")
            /\ (pc = "done" /\ caller \in Facades /\ o \in {"Failed", "TimedOut"}) =>
                  result = Nil /\ resultErr = err

C11_Witness ==
    /\ pc = "done" /\ caller = "Execute" /\ CleanExit
    /\ Outcome(result, resultErr) = "Failed"
    /\ resultErr.code = ErrTimeout /\ resultErr.recoverable

\* C16 as stated: a call has one timeout value: when its timer has fired and
\* Execute returns the engine's TIMEOUT error, the timeout the message reports
\* is the deadline the call enforced, whatever SetTimeout did during the call.
C16_OneTimeoutPerCall ==
    (Returned /\ timerFired /\ response = Nil /\ IsTimeoutError(err)) =>
        err.message = TimeoutMessage(deadline)

\* C17 as stated: only the expiry of the configured timeout cuts a call short:
\* a child is killed only when the timer of the call has fired.
C17_OnlyTimeoutCutsShort ==
    child = "killed" => timerFired

\* C17, amended: a running call is cut short by the end of timeoutCtx, which
\* ends when the configured timeout expires or when the context the caller
\* passed ends (cancelled, or past its own deadline).  Either way the child is
\* killed at once and Execute returns no Response: the TIMEOUT error when
\* timeoutCtx ended with DeadlineExceeded, the plain "adapter execution
\* failed" error when the caller cancelled.
C17_TimeoutOrCallerContextCutsShort ==
    /\ child = "killed" => timeoutCtxErr # "nil" /\ (timerFired \/ ctxErr # "nil")
    /\ (child = "killed" /\ ~timerFired) => timeoutCtxErr = ctxErr
    /\ (pc = "running" /\ (ctxErr # "nil" \/ timerFired)) => child # "running"
    /\ (Returned /\ child = "killed") =>
          /\ response = Nil
          /\ timeoutCtxErr = "DeadlineExceeded" => IsTimeoutError(err)
          /\ timeoutCtxErr = "Canceled" =>
                /\ err.type = "error" /\ err.text = "adapter execution failed"
                /\ err.cause = "signal: killed"

C17_Witness ==
    /\ pc = "done" /\ child = "killed" /\ ~timerFired /\ ~hangs
    /\ ctxErr = "Canceled" /\ resultErr.type = "error"

\* C18: when Execute has returned, on every path, no child of the call is
\* running and the engine holds no process handle or pipe: a child that was
\* started has been waited for (reaped, its pipes closed), and a call that
\* started no child never held any.
C18_NothingHeldAfterReturn ==
    /\ Returned =>
          /\ child # "running"
          /\ handle # "open"
          /\ spawned = 1 => handle = "released"
          /\ spawned = 0 => handle = "none" /\ child = "none"
    /\ handle = "open" <=> pc = "running"

C18_Witness ==
    /\ pc = "done" /\ timerFired /\ child = "killed" /\ handle = "released"
    /\ IsTimeoutError(resultErr)

\* a failure mode of the call: the adapter is missing or the params are not
\* marshalled, the command does not run to a clean exit, the output is not
\* parsed, the envelope says "ok": false, or its data is not of the result shape
FailureMode ==
    \/ ~PassedEntry
    \/ ~CleanExit
    \/ stdout.kind # "object"
    \/ stdout.ok \in {"false", "badtype"}
    \/ caller \in Facades /\ stdout.data = "bad"

\* C19 as stated: every failure mode ends in a non-nil error returned to the
\* caller, and a facade method never returns a nil result with a nil error.
C19_FailuresReturnErrors ==
    pc = "done" =>
        /\ FailureMode => resultErr # Nil
        /\ caller \in Facades => ~(result = Nil /\ resultErr = Nil)

\* what is left of C19 beside C5: the failure modes other than an envelope
\* "ok": false without an "error", and the JSON text null, end in a non-nil
\* error, and no facade method returns a nil result with a nil error
C19_OtherFailuresReturnErrors ==
    pc = "done" =>
        /\ (FailureMode /\ ~(CleanExit /\ PassedEntry /\
              (stdout.kind = "null" \/ (stdout.kind = "object" /\ stdout.error = NoWireError))))
              => resultErr # Nil
        /\ caller \in Facades => ~(result = Nil /\ resultErr = Nil)

\* C20: when the adapter exits cleanly with an envelope "ok": true whose data
\* cannot be decoded into the result type of the verb, Execute returns no
\* error, and the facade method returns no typed result and an error that is
\* no BridgeError: its own "failed to parse" error wrapping the decode error.
C20_DataDecodeFailureIsPlainError ==
    (pc = "done" /\ caller \in Facades /\ PassedEntry /\ CleanExit
       /\ stdout.kind = "object" /\ stdout.ok = "true" /\ stdout.data = "bad") =>
        /\ err = Nil /\ response # Nil
        /\ result = Nil
        /\ resultErr.type = "error"
        /\ resultErr.text = FacadeParseText(caller)
        /\ resultErr.cause = "cannot unmarshal"

C20_Witness ==
    /\ pc = "done" /\ caller = "Capabilities" /\ CleanExit
    /\ stdout.ok = "true" /\ stdout.data = "bad"
    /\ result = Nil /\ resultErr.type = "error"

\* the envelopes the adapter process has written to standard output
Written == { adapterStdout[i] : i \in 1..Len(adapterStdout) }

\* C12: every envelope BaseAdapter.execute writes, for any verb argument and
\* any params, also when the handler throws, is an object with
\* adapter_version; with "ok": true it has no error; with "ok": false it has no
\* data and it has an error with a code and a recoverable flag.
C12_EnvelopeWellFormed ==
    \A e \in Written :
        /\ e.kind = "object"
        /\ e.ok \in {"true", "false"}
        /\ e.ver = "1.0.0"
        /\ e.ok = "true" => e.error = NoWireError
        /\ e.ok = "false" =>
              /\ e.data = "absent"
              /\ e.error # NoWireError
              /\ e.error.code \in ErrorCodes
              /\ e.error.recoverable \in {"true", "false"}

C12_Witness ==
    /\ adapterPc = "written" /\ adapterVerb = "fetch:config"
    /\ adapterParams = "undefined"
    /\ adapterStdout[1].ok = "false" /\ adapterStdout[1].error.code = ErrUnknown
    /\ adapterStdout[1].ver = "1.0.0"

\* standard input is piped and holds text that is no JSON
InvalidStdin == isTTY = "false" /\ adapterStdin = "{oops"

\* C13 as stated: every run of the Vercel adapter, whatever its verb argument
\* and its standard input, has written exactly one envelope when it exits.
C13_AlwaysOneEnvelope ==
    adapterPc = "exited" => Len(adapterStdout) = 1

\* C13, amended: a run of the Vercel adapter writes at most one envelope.  When
\* standard input is piped and holds text that is no JSON, the run writes no
\* envelope: it writes one diagnostic to standard error and exits with status
\* 1.  In every other case (standard input not read, empty, blank, or valid
\* JSON), and for any verb argument, it writes exactly one envelope and exits
\* with status 0.
C13_OneEnvelopeUnlessStdinInvalid ==
    /\ Len(adapterStdout) <= 1
    /\ adapterPc = "written" => Len(adapterStdout) = 1 /\ ~InvalidStdin
    /\ adapterPc = "exited" =>
          IF InvalidStdin
          THEN adapterStdout = << >> /\ Len(adapterStderr) = 1 /\ adapterExit = 1
          ELSE Len(adapterStdout) = 1 /\ adapterStderr = << >> /\ adapterExit = 0

C13_Witness ==
    /\ adapterPc = "exited" /\ InvalidStdin /\ adapterVerb = "capabilities"
    /\ adapterStdout = << >> /\ adapterExit = 1

\* the known verbs the Vercel adapter does not implement
VercelUnsupported == {"auth:refresh", "deploy:preview", "dns:update", "dns:rollback"}

\* C14: the Vercel adapter answers a verb argument outside the eight verbs
\* with "ok": false and code INVALID_PARAMS, and exits with status 0; it
\* answers auth:refresh, deploy:preview, dns:update and dns:rollback with
\* "ok": false, code UNSUPPORTED and recoverable false, whatever the params.
C14_UnknownAndUnsupportedVerbs ==
    /\ (adapterPc \in {"written", "exited"} /\ ~InvalidStdin) =>
          /\ Len(adapterStdout) = 1
          /\ adapterVerb \notin Verbs =>
                /\ adapterStdout[1].ok = "false"
                /\ adapterStdout[1].error.code = ErrInvalidParams
          /\ adapterVerb \in VercelUnsupported =>
                /\ adapterStdout[1].ok = "false"
                /\ adapterStdout[1].error.code = ErrUnsupported
                /\ adapterStdout[1].error.recoverable = "false"
    /\ (adapterPc = "exited" /\ ~InvalidStdin) => adapterExit = 0

C14_Witness ==
    /\ adapterPc = "exited" /\ adapterVerb = "dns:rollback"
    /\ adapterParams = "undefined" /\ adapterExit = 0
    /\ adapterStdout[1].error.code = ErrUnsupported

\* C15 as stated: in every error an adapter run writes, recoverable agrees with
\* the code: true for NETWORK_ERROR, RATE_LIMITED and TIMEOUT, false for
\* INVALID_PARAMS and UNSUPPORTED.
C15_RecoverableAgreesWithCode ==
    \A e \in Written :
        e.error # NoWireError =>
            /\ e.error.code \in {ErrNetworkError, ErrRateLimited, ErrTimeout} =>
                  e.error.recoverable = "true"
            /\ e.error.code \in {ErrInvalidParams, ErrUnsupported} =>
                  e.error.recoverable = "false"

\* the adapter answered {"ok": true, "data": {}, "adapter_version": ...} and
\* exited with status 0
AnsweredEmptyData ==
    /\ PassedEntry /\ CleanExit
    /\ stdout.kind = "object" /\ stdout.ok = "true" /\ stdout.data = "empty"
    /\ stdout.error = NoWireError /\ stdout.ver # "absent"

\* C21: a call of any facade method whose adapter answers ok:true with an
\* empty data object and exits cleanly returns a typed result of the method's
\* result type, with zero values, and a nil error.
C21_EmptyDataDecodes ==
    (pc = "done" /\ caller \in Facades /\ AnsweredEmptyData) =>
        /\ resultErr = Nil
        /\ result # Nil
        /\ result = TypedData(caller, "zero")

C21_Witness ==
    /\ pc = "done" /\ caller = "SyncEnv" /\ AnsweredEmptyData
    /\ result = TypedData("SyncEnv", "zero") /\ resultErr = Nil

\* C30 as stated: when Execute returns a nil error the Response has ok true,
\* and a facade method returns a typed result with a nil error only if the
\* envelope had "ok": true.
C30_NilErrorMeansOk ==
    /\ (Returned /\ err = Nil) => response # Nil /\ response.OK
    /\ (pc = "done" /\ caller \in Facades /\ resultErr = Nil) =>
          stdout.kind = "object" /\ stdout.ok = "true"

\* the JavaScript value is the Go value of a field of that kind
SameValue(kind, go, js) ==
    CASE kind = "string" -> js = (IF go = "zero" THEN "emptyString" ELSE "string")
      [] kind = "int" -> js = (IF go = "zero" THEN "zero" ELSE "number")
      [] kind = "slice" ->
            js = (IF go = "nil" THEN "null"
                  ELSE IF go = "empty" THEN "emptyArray" ELSE "array")
      [] kind = "map" ->
            js = (IF go = "nil" THEN "null"
                  ELSE IF go = "empty" THEN "emptyObject" ELSE "object")

-----------------------------------------------------------------------------
(* internal/keychain: keychain.go, and dt auth list / dt auth revoke *)

\* the providers the keychain is called with: the four of types.go and one
\* name that is not among them
KeychainProviders == Providers \cup {"fly"}

\* the secrets that are stored
Tokens == {"tok1", "tok2"}

\* fmt.Sprintf("%s-token", provider)
Key(p) == p \o "-token"

\* keyring.Set: whether the backend of the operating system answers is not
\* the program's to choose
KeyringSet(kr, k, v, up) ==
    IF up
    THEN [keyring |-> [x \in DOMAIN kr \cup {k} |-> IF x = k THEN v ELSE kr[x]],
          err |-> "nil"]
    ELSE [keyring |-> kr, err |-> "keyring unavailable"]

\* keyring.Get
KeyringGet(kr, k) ==
    IF k \in DOMAIN kr
    THEN [secret |-> kr[k], err |-> "nil"]
    ELSE [secret |-> "", err |-> "ErrNotFound"]

\* a keyring whose Delete empties the whole service
KeyringDeleteService(kr, k, up) ==
    IF ~up THEN [keyring |-> kr, err |-> "keyring unavailable"]
    ELSE IF k \in DOMAIN kr
    THEN [keyring |-> << >>, err |-> "nil"]
    ELSE [keyring |-> kr, err |-> "ErrNotFound"]

\* keyring.Delete
KeyringDelete(kr, k, up) ==
    IF ~up THEN [keyring |-> kr, err |-> "keyring unavailable"]
    ELSE IF k \in DOMAIN kr
    THEN [keyring |-> [x \in DOMAIN kr \ {k} |-> kr[x]], err |-> "nil"]
    ELSE [keyring |-> kr, err |-> "ErrNotFound"]

\* keychain.Store
Store(kr, p, t, up) == KeyringSet(kr, Key(p), t, up)

\* keychain.Get
Get(kr, p) ==
    LET got == KeyringGet(kr, Key(p)) IN
    IF got.err = "ErrNotFound"
    THEN [token |-> "", err |-> "no credentials found"]
    ELSE [token |-> got.secret, err |-> got.err]

\* keychain.Delete
Delete(kr, p, up) == KeyringDelete(kr, Key(p), up)

\* keychain.List
List(kr) ==
    SelectSeq(<< "vercel", "cloudflare", "render", "netlify" >>,
              LAMBDA p : Get(kr, p).err = "nil")

\* a call of keychain.Store
StoreCall(p, t, up) ==
    LET r == Store(keyring, p, t, up) IN
    /\ keyring' = r.keyring
    /\ kcCall' = [op |-> "Store", provider |-> p, token |-> t, err |-> r.err,
                  before |-> keyring]

\* a call of keychain.Get
GetCall(p) ==
    LET r == Get(keyring, p) IN
    /\ keyring' = keyring
    /\ kcCall' = [op |-> "Get", provider |-> p, token |-> r.token,
                  err |-> r.err, before |-> keyring]

\* a call of keychain.Delete
DeleteCall(p, up) ==
    LET r == Delete(keyring, p, up) IN
    /\ keyring' = r.keyring
    /\ kcCall' = [op |-> "Delete", provider |-> p, err |-> r.err,
                  before |-> keyring]

\* a call of keychain.List
ListCall ==
    /\ keyring' = keyring
    /\ kcCall' = [op |-> "List", found |-> List(keyring), err |-> "nil",
                  before |-> keyring]

\* a package of the program calls keychain.Store
KeychainStore(p, t, up) ==
    /\ runPc = "idle" /\ screen = "none"
    /\ StoreCall(p, t, up)
    /\ UNCHANGED << flowVars, tuiVars, outsideApp >>

\* a package of the program calls keychain.Get
KeychainGet(p) ==
    /\ runPc = "idle" /\ screen = "none"
    /\ GetCall(p)
    /\ UNCHANGED << flowVars, tuiVars, outsideApp >>

\* dt auth list: AuthCommand.List
AuthList ==
    /\ runPc = "idle" /\ screen = "none"
    /\ ListCall
    /\ UNCHANGED << flowVars, tuiVars, outsideApp >>

\* dt auth revoke <provider>: AuthCommand.Revoke, whose error is that of
\* keychain.Delete
Revoke(p, up) ==
    /\ runPc = "idle" /\ screen = "none"
    /\ DeleteCall(p, up)
    /\ UNCHANGED << flowVars, tuiVars, outsideApp >>

KeychainNext ==
    \/ \E p \in KeychainProviders, t \in Tokens, up \in BOOLEAN :
           KeychainStore(p, t, up)
    \/ \E p \in KeychainProviders : KeychainGet(p)
    \/ AuthList
    \/ \E p \in KeychainProviders, up \in BOOLEAN : Revoke(p, up)

KeychainSpec == Init /\ [][KeychainNext]_vars

-----------------------------------------------------------------------------
(* cli/auth.go: dt auth <provider>, AuthCommand.Run *)

\* the providers that are authenticated
FlowProviders == {"vercel", "render"}

\* the auth_url of VercelAdapter.authStart
AuthURL == "https://vercel.com/account/tokens"

\* what a facade method of the bridge comes to inside a flow: Capabilities
\* returns its data or an error
CapabilitiesOutcomes == {"ok", "err"}

\* AuthStart returns data whose auth_url is a URL, is the empty string or is
\* absent, or an error
AuthStartOutcomes == {"url", "empty", "absent", "err"}

\* FetchConfig returns data, a *BridgeError with code INVALID_PARAMS, a
\* *BridgeError with another code, or an error of another type
FetchConfigOutcomes == {"ok", "invalidParams", "bridgeError", "error"}

\* what the user types at a prompt, "eof" when standard input ends
InputLines == {"eof", "", "  ", "tok1"}

\* AuthStartData, decoded from the data of the response: AuthURL is a string
\* tagged omitempty, the zero string both for "" and for no member
AuthStartData(o) ==
    [nil |-> FALSE, auth_url |-> IF o = "url" THEN AuthURL ELSE ""]

\* a prompt that takes the line as it was typed
TrimSpaceNot(line) == line

\* strings.TrimSpace
TrimSpace(line) == IF line = "  " THEN "" ELSE line

\* one entry of issued
Did(what, e) == [did |-> what, err |-> e]

\* a branch condition that takes every AuthStartData for an OAuth answer
OAuthBranchAlways(d) == ~d.nil

\* authData.AuthURL != "", and in the auth screen m.authData != nil && ...
OAuthBranch(d) == ~d.nil /\ d.auth_url # ""

\* a verification that takes INVALID_PARAMS for a failure like any other
VerifyErrStrict(o) ==
    IF o = "ok" THEN "nil" ELSE "failed to verify token"

\* the error a flow returns for what FetchConfig returned
VerifyErr(o) ==
    CASE o = "ok" -> "nil"
      [] o = "invalidParams" -> "nil"
      [] OTHER -> "failed to verify token"

\* a Run that goes on to auth:start whatever Capabilities returned
RunCapabilitiesUnchecked(p, o) ==
    /\ runPc = "idle" /\ screen = "none"
    /\ authProvider' = p
    /\ issued' = << Did("capabilities", IF o = "ok" THEN "nil" ELSE "err") >>
    /\ runPc' = "authStart" /\ authErr' = "nil"
    /\ caps' = IF o = "ok" THEN CapabilitiesData ELSE NilData
    /\ UNCHANGED << authData, shown, browserOpened, opens, token >>
    /\ UNCHANGED << keychainVars, tuiVars, outsideApp >>

\* Run, up to the return of c.bridge.Capabilities
RunCapabilities(p, o) ==
    /\ runPc = "idle" /\ screen = "none"
    /\ authProvider' = p
    /\ issued' = << Did("capabilities", IF o = "ok" THEN "nil" ELSE "err") >>
    /\ IF o = "ok"
       THEN runPc' = "authStart" /\ authErr' = "nil"
       ELSE runPc' = "returned" /\ authErr' = "failed to get capabilities"
    /\ caps' = IF o = "ok" THEN CapabilitiesData ELSE NilData
    /\ UNCHANGED << authData, shown, browserOpened, opens, token >>
    /\ UNCHANGED << keychainVars, tuiVars, outsideApp >>

\* Run, from c.bridge.AuthStart to the prompt for the token
RunAuthStart(o) ==
    /\ runPc = "authStart"
    /\ issued' = Append(issued, Did("auth:start", IF o = "err" THEN "err" ELSE "nil"))
    /\ IF o = "err"
       THEN /\ runPc' = "returned" /\ authErr' = "failed to start auth"
            /\ UNCHANGED << caps, authData, shown, browserOpened, opens >>
       ELSE /\ authData' = AuthStartData(o)
            /\ shown' = IF OAuthBranch(AuthStartData(o)) THEN "oauth" ELSE "prompt"
            /\ browserOpened' = OAuthBranch(AuthStartData(o))
            /\ opens' = IF OAuthBranch(AuthStartData(o)) THEN 1 ELSE 0
            /\ runPc' = "read"
            /\ authErr' = "nil"
    /\ UNCHANGED << authProvider, caps, token >>
    /\ UNCHANGED << keychainVars, tuiVars, outsideApp >>

\* Run, from reader.ReadString to the test of the token
RunReadToken(line) ==
    /\ runPc = "read"
    /\ IF line = "eof"
       THEN runPc' = "returned" /\ authErr' = "failed to read token" /\ token' = ""
       ELSE /\ token' = TrimSpace(line)
            /\ IF TrimSpace(line) = ""
               THEN runPc' = "returned" /\ authErr' = "token cannot be empty"
               ELSE runPc' = "store" /\ authErr' = "nil"
    /\ UNCHANGED << authProvider, issued, caps, authData, shown, browserOpened, opens >>
    /\ UNCHANGED << keychainVars, tuiVars, outsideApp >>

\* Run: keychain.Store
RunStore(up) ==
    /\ runPc = "store"
    /\ StoreCall(authProvider, token, up)
    /\ issued' = Append(issued, Did("store", IF up THEN "nil" ELSE "err"))
    /\ IF up
       THEN runPc' = "verify" /\ authErr' = "nil"
       ELSE runPc' = "returned" /\ authErr' = "failed to store token"
    /\ UNCHANGED << authProvider, caps, authData, shown, browserOpened, opens, token >>
    /\ UNCHANGED << tuiVars, outsideApp >>

\* Run, from c.bridge.FetchConfig to its last return
RunFetchConfig(o) ==
    /\ runPc = "verify"
    /\ issued' = Append(issued, Did("fetch:config", IF o = "ok" THEN "nil" ELSE o))
    /\ runPc' = "returned"
    /\ authErr' = VerifyErr(o)
    /\ UNCHANGED << authProvider, caps, authData, shown, browserOpened, opens, token >>
    /\ UNCHANGED << keychainVars, tuiVars, outsideApp >>

\* dt ends, and can be run again
AuthRunReturns ==
    /\ runPc = "returned"
    /\ runPc' = "idle"
    /\ authProvider' = "none" /\ issued' = << >> /\ authData' = NilData /\ caps' = NilData
    /\ shown' = "none" /\ browserOpened' = FALSE /\ opens' = 0
    /\ token' = "" /\ authErr' = "nil"
    /\ UNCHANGED << keychainVars, tuiVars, outsideApp >>

AuthRunNext ==
    \/ \E p \in FlowProviders, o \in CapabilitiesOutcomes : RunCapabilities(p, o)
    \/ \E o \in AuthStartOutcomes : RunAuthStart(o)
    \/ \E line \in InputLines : RunReadToken(line)
    \/ \E up \in BOOLEAN : RunStore(up)
    \/ \E o \in FetchConfigOutcomes : RunFetchConfig(o)
    \/ AuthRunReturns

-----------------------------------------------------------------------------
(* internal/tui: dashboard.go and init.go *)

\* the keys of the dashboard's menu items
DashboardItems == {"init", "list", "auth", "current", "quit"}

\* a handler returned tea.Quit: p.Run returns
Quit(key) ==
    /\ prog' = "returned"
    /\ quitKey' = key

\* the width a tea.WindowSizeMsg reports
TermWidth == 80

\* InitModel.View: "Loading", the content of the step, or at stepComplete the
\* error when m.err is set
InitView(step, w, m) ==
    IF w = 0 THEN "Loading"
    ELSE IF step = "stepComplete" /\ m.err # "nil" THEN "error"
    ELSE step

\* tea.NewProgram(NewDashboardModel(...)) and p.Run, entered after key ended
\* the program before
LaunchDashboard(key) ==
    /\ screen' = "dashboard" /\ prog' = "running"
    /\ quitKey' = "none" /\ launchKey' = key
    /\ selected' = "" /\ quitting' = FALSE /\ pending' = NoMsg
    /\ initStep' = "none" /\ authStep' = "none" /\ width' = 0
    /\ initModel' = NoInitModel /\ initShown' = "none"
    /\ UNCHANGED migrations

\* tea.NewProgram(NewInitModel(...)) and p.Run
LaunchInit(key) ==
    /\ screen' = "init" /\ prog' = "running"
    /\ quitKey' = "none" /\ launchKey' = key
    /\ selected' = "" /\ quitting' = FALSE /\ pending' = NoMsg
    /\ initStep' = "stepSelectSource" /\ authStep' = "none" /\ width' = 0
    /\ initModel' = NoInitModel
    /\ initShown' = InitView("stepSelectSource", 0, NoInitModel)
    /\ UNCHANGED migrations

\* the Run function returns to main and dt ends, and with it the commands
\* that still run
Exit ==
    /\ screen' = "none" /\ prog' = "none"
    /\ quitKey' = "none" /\ launchKey' = "none"
    /\ selected' = "" /\ quitting' = FALSE /\ pending' = NoMsg
    /\ initStep' = "none" /\ authStep' = "none" /\ width' = 0
    /\ initModel' = NoInitModel /\ initShown' = "none" /\ migrations' = << >>
    /\ cmd' = NoCmd
    /\ runPc' = "idle"
    /\ authProvider' = "none" /\ issued' = << >> /\ authData' = NilData /\ caps' = NilData
    /\ shown' = "none" /\ browserOpened' = FALSE /\ opens' = 0
    /\ token' = "" /\ authErr' = "nil"

\* dt: the main dashboard
StartDashboard ==
    /\ screen = "none" /\ runPc = "idle"
    /\ LaunchDashboard("none")
    /\ UNCHANGED << cmd, keychainVars, flowVars, outsideApp >>

\* dt init: the migration wizard
StartInit ==
    /\ screen = "none" /\ runPc = "idle"
    /\ LaunchInit("none")
    /\ UNCHANGED << cmd, keychainVars, flowVars, outsideApp >>

\* DashboardModel.Update, tea.KeyMsg "ctrl+c"
DashboardCtrlC ==
    /\ screen = "dashboard" /\ prog = "running"
    /\ quitting' = TRUE
    /\ Quit("ctrl+c")
    /\ UNCHANGED << screen, launchKey, selected, pending, initStep, initModel, initShown, migrations, authStep,
                    width, cmd >>
    /\ UNCHANGED << keychainVars, flowVars, outsideApp >>

\* DashboardModel.Update, tea.KeyMsg "q"
DashboardQ ==
    /\ screen = "dashboard" /\ prog = "running"
    /\ quitting' = TRUE
    /\ Quit("q")
    /\ UNCHANGED << screen, launchKey, selected, pending, initStep, initModel, initShown, migrations, authStep,
                    width, cmd >>
    /\ UNCHANGED << keychainVars, flowVars, outsideApp >>

\* DashboardModel.Update, tea.KeyMsg "enter" with the cursor on item i;
\* migration tells whether m.migration is not nil
DashboardEnter(i, migration) ==
    /\ screen = "dashboard" /\ prog = "running"
    /\ selected' = i
    /\ IF i = "quit"
       THEN quitting' = TRUE /\ Quit("enter") /\ pending' = pending
       ELSE /\ UNCHANGED << quitting, prog, quitKey >>
            /\ pending' = CASE i = "init" -> [type |-> "switchToInitMsg"]
                            [] i = "auth" -> [type |-> "switchToAuthMsg"]
                            [] i = "current" /\ migration -> [type |-> "switchToMigrationMsg"]
                            [] i = "list" -> [type |-> "switchToListMsg"]
                            [] OTHER -> pending
    /\ UNCHANGED << screen, launchKey, initStep, initModel, initShown, migrations, authStep, width, cmd >>
    /\ UNCHANGED << keychainVars, flowVars, outsideApp >>

\* DashboardModel.Update, any other message: it has no case for the
\* switchTo messages, which go to m.list.Update and change nothing
DashboardUpdateMsg ==
    /\ screen = "dashboard" /\ prog = "running"
    /\ pending # NoMsg
    /\ pending' = NoMsg
    /\ UNCHANGED << screen, prog, quitKey, launchKey, selected, quitting,
                    initStep, initModel, initShown, migrations, authStep, width, cmd >>
    /\ UNCHANGED << keychainVars, flowVars, outsideApp >>

\* InitModel.Update, tea.KeyMsg "ctrl+c"
InitCtrlC ==
    /\ screen = "init" /\ prog = "running"
    /\ Quit("ctrl+c")
    /\ UNCHANGED << screen, launchKey, selected, quitting, pending, initStep, initModel, initShown, migrations,
                    authStep, width, cmd >>
    /\ UNCHANGED << keychainVars, flowVars, outsideApp >>

\* InitModel.Update, tea.KeyMsg "q"
InitQ ==
    /\ screen = "init" /\ prog = "running"
    /\ Quit("q")
    /\ UNCHANGED << screen, launchKey, selected, quitting, pending, initStep, initModel, initShown, migrations,
                    authStep, width, cmd >>
    /\ UNCHANGED << keychainVars, flowVars, outsideApp >>

\* the providers of the wizard's two lists that the model follows
InitProviders == {"vercel", "render"}

\* what the domain input holds when text was typed into it
Domain == "example.com"

\* DB.CreateMigration: the row it inserts
Migration(m) ==
    [source |-> m.selectedSource, target |-> m.selectedTarget,
     domain |-> m.domain, status |-> "pending"]

\* InitModel.Update, tea.WindowSizeMsg
InitWindowSize ==
    /\ screen = "init" /\ prog = "running"
    /\ width' = TermWidth
    /\ initShown' = InitView(initStep, TermWidth, initModel)
    /\ UNCHANGED << screen, prog, quitKey, launchKey, selected, quitting,
                    pending, initStep, initModel, migrations, authStep, cmd >>
    /\ UNCHANGED << keychainVars, flowVars, outsideApp >>

\* InitModel.handleEnter; i is the item under the cursor, typed tells whether
\* the domain input holds text, created whether stateDB.CreateMigration
\* returned no error
InitEnter(i, typed, created) ==
    /\ screen = "init" /\ prog = "running"
    /\ CASE initStep = "stepSelectSource" ->
              /\ initModel' = [initModel EXCEPT !.selectedSource = i]
              /\ initStep' = "stepSelectTarget"
              /\ UNCHANGED << prog, quitKey, migrations >>
         [] initStep = "stepSelectTarget" ->
              /\ initModel' = [initModel EXCEPT !.selectedTarget = i]
              /\ initStep' = "stepEnterDomain"
              /\ UNCHANGED << prog, quitKey, migrations >>
         [] initStep = "stepEnterDomain" ->
              /\ initModel' = [initModel EXCEPT !.domain = IF typed THEN Domain ELSE ""]
              /\ initStep' = IF typed THEN "stepConfirm" ELSE initStep
              /\ UNCHANGED << prog, quitKey, migrations >>
         [] initStep = "stepConfirm" ->
              IF created
              THEN /\ migrations' = Append(migrations, Migration(initModel))
                   /\ initStep' = "stepComplete" /\ Quit("enter")
                   /\ UNCHANGED initModel
              ELSE /\ initModel' = [initModel EXCEPT !.err = "insert failed"]
                   /\ UNCHANGED << initStep, prog, quitKey, migrations >>
         [] OTHER -> UNCHANGED << initStep, initModel, prog, quitKey, migrations >>
    /\ initShown' = InitView(initStep', width, initModel')
    /\ UNCHANGED << screen, launchKey, selected, quitting, pending, authStep,
                    width, cmd >>
    /\ UNCHANGED << keychainVars, flowVars, outsideApp >>

\* RunInitTUI, after p.Run has returned
RunInitTUIReturns ==
    /\ screen = "init" /\ prog = "returned"
    /\ Exit
    /\ UNCHANGED << keychainVars, outsideApp >>

-----------------------------------------------------------------------------
(* internal/tui: auth.go *)

\* the keys of the auth menu's items
AuthMenuItems == {"auth", "list", "revoke", "back"}

\* what the token input holds when Enter is pressed
TokenInputs == {"", "tok1"}

\* the calls of openBrowser the model follows within one flow
MaxOpens == 2

\* AuthModel.View: what it renders of the token step; the step reads the
\* fields of m.capabilities, and panics on a nil pointer
View(step, w, d, c) ==
    IF w = 0 THEN "Loading"
    ELSE IF step = "authStepEnterToken"
    THEN IF c.nil THEN "panic"
         ELSE IF OAuthBranch(d) THEN "oauth" ELSE "prompt"
    ELSE "other"

\* the program renders the model Update returned; the OAuth instructions call
\* openBrowser, on every rendering
Render(v) ==
    /\ v = "oauth" => opens < MaxOpens
    /\ shown' = IF v \in {"oauth", "prompt", "panic"} THEN v ELSE shown
    /\ browserOpened' = (browserOpened \/ v = "oauth")
    /\ opens' = IF v = "oauth" THEN opens + 1 ELSE opens

\* tea.NewProgram(NewAuthModel(...)) and p.Run; NewAuthModel calls
\* keychain.List
LaunchAuth(key) ==
    /\ screen' = "auth" /\ prog' = "running"
    /\ quitKey' = "none" /\ launchKey' = key
    /\ selected' = "" /\ quitting' = FALSE /\ pending' = NoMsg
    /\ initStep' = "none" /\ authStep' = "authStepMenu" /\ width' = 0
    /\ initModel' = NoInitModel /\ initShown' = "none"
    /\ ListCall
    /\ authProvider' = "none" /\ authData' = NilData /\ caps' = NilData
    /\ token' = "" /\ authErr' = "nil"
    /\ shown' = "none" /\ browserOpened' = FALSE /\ opens' = 0
    /\ UNCHANGED << runPc, issued, migrations >>

\* dt auth: the auth menu
StartAuth ==
    /\ screen = "none" /\ runPc = "idle"
    /\ LaunchAuth("none")
    /\ UNCHANGED << cmd, outsideApp >>

\* RunDashboardTUI, after p.Run has returned
RunDashboardTUIReturns ==
    /\ screen = "dashboard" /\ prog = "returned"
    /\ CASE selected = "init" ->
              LaunchInit(quitKey) /\ UNCHANGED << cmd, keychainVars, flowVars >>
         [] selected = "auth" -> LaunchAuth(quitKey) /\ cmd' = cmd
         [] OTHER -> Exit /\ UNCHANGED keychainVars
    /\ UNCHANGED outsideApp

\* RunAuthTUI, after p.Run has returned
RunAuthTUIReturns ==
    /\ screen = "auth" /\ prog = "returned"
    /\ LaunchDashboard(quitKey)
    /\ UNCHANGED << cmd, keychainVars, flowVars, outsideApp >>

\* the program of a command has ended: the command goes on, and what it
\* sends is received by nobody
Orphan(c) == IF c = NoCmd THEN c ELSE [c EXCEPT !.orphan = TRUE]

\* AuthModel.Update, tea.KeyMsg "ctrl+c"
AuthCtrlC ==
    /\ screen = "auth" /\ prog = "running"
    /\ Quit("ctrl+c")
    /\ cmd' = Orphan(cmd)
    /\ UNCHANGED << screen, launchKey, selected, quitting, pending, initStep, initModel, initShown, migrations,
                    authStep, width >>
    /\ UNCHANGED << keychainVars, flowVars, outsideApp >>

\* AuthModel.Update, tea.KeyMsg "q": it quits at the menu and at the end of a
\* flow, and is a key like any other elsewhere
AuthQ ==
    /\ screen = "auth" /\ prog = "running"
    /\ IF authStep \in {"authStepMenu", "authStepComplete", "authStepError"}
       THEN Quit("q") /\ UNCHANGED << shown, browserOpened, opens >>
       ELSE UNCHANGED << prog, quitKey >> /\ Render(View(authStep, width, authData, caps))
    /\ UNCHANGED << screen, launchKey, selected, quitting, pending, initStep, initModel, initShown, migrations,
                    authStep, width, cmd >>
    /\ UNCHANGED << runPc, authProvider, issued, caps, authData, token, authErr >>
    /\ UNCHANGED << keychainVars, outsideApp >>

\* AuthModel.Update, tea.WindowSizeMsg
AuthWindowSize ==
    /\ screen = "auth" /\ prog = "running"
    /\ width' = TermWidth
    /\ Render(View(authStep, TermWidth, authData, caps))
    /\ UNCHANGED << screen, prog, quitKey, launchKey, selected, quitting,
                    pending, initStep, initModel, initShown, migrations, authStep, cmd >>
    /\ UNCHANGED << runPc, authProvider, issued, caps, authData, token, authErr >>
    /\ UNCHANGED << keychainVars, outsideApp >>

\* AuthModel.Update, spinner.TickMsg: the spinner moves on and asks for its
\* next tick, and the program renders the model again
AuthSpinnerTick ==
    /\ screen = "auth" /\ prog = "running"
    /\ Render(View(authStep, width, authData, caps))
    /\ UNCHANGED << screen, prog, quitKey, launchKey, selected, quitting,
                    pending, initStep, initModel, initShown, migrations, authStep, width, cmd >>
    /\ UNCHANGED << runPc, authProvider, issued, caps, authData, token, authErr >>
    /\ UNCHANGED << keychainVars, outsideApp >>

\* AuthModel.handleEnter at the menu, with the cursor on item i
AuthEnterMenu(i) ==
    /\ screen = "auth" /\ prog = "running" /\ authStep = "authStepMenu"
    /\ CASE i = "back" -> Quit("enter") /\ authStep' = authStep
         [] i = "auth" ->
              authStep' = "authStepSelectProvider" /\ UNCHANGED << prog, quitKey >>
         [] i = "list" ->
              authStep' = "authStepComplete" /\ UNCHANGED << prog, quitKey >>
         [] OTHER -> UNCHANGED << authStep, prog, quitKey >>
    /\ UNCHANGED << screen, launchKey, selected, quitting, pending, initStep, initModel, initShown, migrations,
                    width, cmd >>
    /\ UNCHANGED << keychainVars, flowVars, outsideApp >>

\* AuthModel.handleEnter at the list of providers, with the cursor on p.  The
\* command of a screen that was left has ended by the time the next screen
\* starts one.
AuthEnterProvider(p) ==
    /\ screen = "auth" /\ prog = "running" /\ authStep = "authStepSelectProvider"
    /\ cmd = NoCmd
    /\ authProvider' = p
    /\ authStep' = "authStepFetchingCapabilities"
    /\ cmd' = [name |-> "fetchCapabilitiesCmd", provider |-> p, orphan |-> FALSE]
    /\ issued' = << >> /\ shown' = "none" /\ browserOpened' = FALSE /\ opens' = 0
    /\ UNCHANGED << screen, prog, quitKey, launchKey, selected, quitting,
                    pending, initStep, initModel, initShown, migrations, width >>
    /\ UNCHANGED << runPc, caps, authData, token, authErr >>
    /\ UNCHANGED << keychainVars, outsideApp >>

\* AuthModel.handleEnter at the token input, which holds text
AuthEnterToken(text) ==
    /\ screen = "auth" /\ prog = "running" /\ authStep = "authStepEnterToken"
    /\ token' = text
    /\ IF text # ""
       THEN /\ authStep' = "authStepVerifying"
            /\ cmd' = [name |-> "verifyTokenCmd", provider |-> authProvider,
                       token |-> text, orphan |-> FALSE]
            /\ UNCHANGED << shown, browserOpened, opens >>
       ELSE /\ UNCHANGED << authStep, cmd >>
            /\ Render(View(authStep, width, authData, caps))
    /\ UNCHANGED << screen, prog, quitKey, launchKey, selected, quitting,
                    pending, initStep, initModel, initShown, migrations, width >>
    /\ UNCHANGED << runPc, authProvider, issued, caps, authData, authErr >>
    /\ UNCHANGED << keychainVars, outsideApp >>

\* AuthModel.handleEnter at the end of a flow
AuthEnterDone ==
    /\ screen = "auth" /\ prog = "running"
    /\ authStep \in {"authStepComplete", "authStepError"}
    /\ Quit("enter")
    /\ UNCHANGED << screen, launchKey, selected, quitting, pending, initStep, initModel, initShown, migrations,
                    authStep, width, cmd >>
    /\ UNCHANGED << keychainVars, flowVars, outsideApp >>

\* a fetchCapabilitiesCmd that sends the AuthStartData alone
CapabilitiesMsgWithoutCaps(o1, o2) ==
    CASE o1 = "err" ->
           [type |-> "capabilitiesMsg", caps |-> NilData, authData |-> NilData,
            err |-> "capabilities failed"]
      [] o1 = "ok" /\ o2 = "err" ->
           [type |-> "capabilitiesMsg", caps |-> NilData, authData |-> NilData,
            err |-> "auth:start failed"]
      [] OTHER ->
           [type |-> "capabilitiesMsg", caps |-> NilData,
            authData |-> AuthStartData(o2), err |-> "nil"]

\* the message of fetchCapabilitiesCmd for what Capabilities and AuthStart
\* returned
CapabilitiesMsg(o1, o2) ==
    CASE o1 = "err" ->
           [type |-> "capabilitiesMsg", caps |-> NilData, authData |-> NilData,
            err |-> "capabilities failed"]
      [] o1 = "ok" /\ o2 = "err" ->
           [type |-> "capabilitiesMsg", caps |-> NilData, authData |-> NilData,
            err |-> "auth:start failed"]
      [] OTHER ->
           [type |-> "capabilitiesMsg", caps |-> CapabilitiesData,
            authData |-> AuthStartData(o2), err |-> "nil"]

\* fetchCapabilitiesCmd, run by the program
FetchCapabilitiesCmd(o1, o2) ==
    /\ cmd.name = "fetchCapabilitiesCmd"
    /\ issued' =
         IF o1 = "err"
         THEN Append(issued, Did("capabilities", "err"))
         ELSE Append(Append(issued, Did("capabilities", "nil")),
                     Did("auth:start", IF o2 = "err" THEN "err" ELSE "nil"))
    /\ pending' = IF cmd.orphan THEN pending ELSE CapabilitiesMsg(o1, o2)
    /\ cmd' = NoCmd
    /\ UNCHANGED << screen, prog, quitKey, launchKey, selected, quitting,
                    initStep, initModel, initShown, migrations, authStep, width >>
    /\ UNCHANGED << runPc, authProvider, caps, authData, shown, browserOpened, opens, token,
                    authErr >>
    /\ UNCHANGED << keychainVars, outsideApp >>

\* verifyTokenCmd, run by the program; up and up2 tell whether the keyring
\* answers keychain.Store and keychain.Delete
VerifyTokenCmd(up, o, up2) ==
    /\ cmd.name = "verifyTokenCmd"
    /\ LET stored == Store(keyring, cmd.provider, cmd.token, up)
           failed == up /\ VerifyErr(o) # "nil"
           deleted == Delete(stored.keyring, cmd.provider, up2)
       IN  /\ keyring' = IF failed THEN deleted.keyring ELSE stored.keyring
           /\ kcCall' =
                IF failed
                THEN [op |-> "Delete", provider |-> cmd.provider,
                      err |-> deleted.err, before |-> stored.keyring]
                ELSE [op |-> "Store", provider |-> cmd.provider,
                      token |-> cmd.token, err |-> stored.err, before |-> keyring]
           /\ issued' =
                IF ~up THEN Append(issued, Did("store", "err"))
                ELSE IF failed
                THEN issued \o << Did("store", "nil"), Did("fetch:config", o),
                                  Did("delete", deleted.err) >>
                ELSE issued \o << Did("store", "nil"),
                                  Did("fetch:config", IF o = "ok" THEN "nil" ELSE o) >>
           /\ pending' =
                IF cmd.orphan THEN pending
                ELSE [type |-> "verifyMsg",
                      err |-> IF ~up THEN stored.err
                              ELSE IF failed THEN o ELSE "nil"]
    /\ cmd' = NoCmd
    /\ UNCHANGED << screen, prog, quitKey, launchKey, selected, quitting,
                    initStep, initModel, initShown, migrations, authStep, width >>
    /\ UNCHANGED << runPc, authProvider, caps, authData, shown, browserOpened, opens, token,
                    authErr >>
    /\ UNCHANGED outsideApp

\* AuthModel.Update, capabilitiesMsg
AuthUpdateCapabilitiesMsg ==
    /\ screen = "auth" /\ prog = "running"
    /\ pending.type = "capabilitiesMsg"
    /\ pending' = NoMsg
    /\ caps' = pending.caps
    /\ authData' = pending.authData
    /\ IF pending.err # "nil"
       THEN /\ authErr' = pending.err /\ authStep' = "authStepError"
            /\ Render(View("authStepError", width, pending.authData, pending.caps))
       ELSE /\ authErr' = authErr /\ authStep' = "authStepEnterToken"
            /\ Render(View("authStepEnterToken", width, pending.authData, pending.caps))
    /\ UNCHANGED << screen, prog, quitKey, launchKey, selected, quitting,
                    initStep, initModel, initShown, migrations, width, cmd >>
    /\ UNCHANGED << runPc, authProvider, issued, token >>
    /\ UNCHANGED << keychainVars, outsideApp >>

\* AuthModel.Update, verifyMsg
AuthUpdateVerifyMsg ==
    /\ screen = "auth" /\ prog = "running"
    /\ pending.type = "verifyMsg"
    /\ pending' = NoMsg
    /\ IF pending.err # "nil"
       THEN authErr' = pending.err /\ authStep' = "authStepError"
       ELSE authErr' = authErr /\ authStep' = "authStepComplete"
    /\ UNCHANGED << screen, prog, quitKey, launchKey, selected, quitting,
                    initStep, initModel, initShown, migrations, width, cmd >>
    /\ UNCHANGED << runPc, authProvider, issued, caps, authData, shown, browserOpened, opens,
                    token >>
    /\ UNCHANGED << keychainVars, outsideApp >>

-----------------------------------------------------------------------------
(* dt: the commands and screens of the application *)

DashboardNext ==
    \/ StartDashboard
    \/ DashboardCtrlC
    \/ DashboardQ
    \/ \E i \in DashboardItems, migration \in BOOLEAN : DashboardEnter(i, migration)
    \/ DashboardUpdateMsg
    \/ RunDashboardTUIReturns

InitNext ==
    \/ StartInit
    \/ InitCtrlC
    \/ InitQ
    \/ InitWindowSize
    \/ \E i \in InitProviders, typed \in BOOLEAN, created \in BOOLEAN :
           InitEnter(i, typed, created)
    \/ RunInitTUIReturns

AuthNext ==
    \/ StartAuth
    \/ AuthCtrlC
    \/ AuthQ
    \/ AuthWindowSize
    \/ AuthSpinnerTick
    \/ \E i \in AuthMenuItems : AuthEnterMenu(i)
    \/ \E p \in FlowProviders : AuthEnterProvider(p)
    \/ \E text \in TokenInputs : AuthEnterToken(text)
    \/ AuthEnterDone
    \/ \E o1 \in CapabilitiesOutcomes, o2 \in AuthStartOutcomes :
           FetchCapabilitiesCmd(o1, o2)
    \/ \E up \in BOOLEAN, o \in FetchConfigOutcomes, up2 \in BOOLEAN :
           VerifyTokenCmd(up, o, up2)
    \/ AuthUpdateCapabilitiesMsg
    \/ AuthUpdateVerifyMsg
    \/ RunAuthTUIReturns

AppNext ==
    \/ AuthRunNext
    \/ DashboardNext
    \/ InitNext
    \/ AuthNext

AppSpec == Init /\ [][AppNext]_vars

-----------------------------------------------------------------------------
(* Properties of the keychain *)

\* C29: after AuthCommand.Revoke(p) succeeds, keychain.Get(p) fails and
\* keychain.List() does not contain p, while what is stored for every other
\* provider is as it was before; after keychain.Store(p, t) succeeds, Get(p)
\* returns t, and List() contains p when p is one of vercel, cloudflare,
\* render, netlify.
C29_RevokeAndStoreFrame ==
    /\ (kcCall.op = "Delete" /\ kcCall.err = "nil") =>
         /\ Get(keyring, kcCall.provider).err # "nil"
         /\ \A i \in 1..Len(List(keyring)) : List(keyring)[i] # kcCall.provider
         /\ \A q \in KeychainProviders \ {kcCall.provider} :
                Get(keyring, q) = Get(kcCall.before, q)
    /\ (kcCall.op = "Store" /\ kcCall.err = "nil") =>
         /\ Get(keyring, kcCall.provider) = [token |-> kcCall.token, err |-> "nil"]
         /\ kcCall.provider \in Providers =>
                \E i \in 1..Len(List(keyring)) : List(keyring)[i] = kcCall.provider

C29_Witness ==
    /\ kcCall.op = "Delete" /\ kcCall.err = "nil" /\ kcCall.provider = "vercel"
    /\ Get(kcCall.before, "vercel") = [token |-> "tok1", err |-> "nil"]
    /\ Get(keyring, "netlify") = [token |-> "tok2", err |-> "nil"]
    /\ Get(keyring, "fly") = [token |-> "tok1", err |-> "nil"]
    /\ List(keyring) = << "netlify" >>

-----------------------------------------------------------------------------
(* Properties of the authentication flows *)

\* C24: in the flow of dt auth <provider> and in the flow of the auth screen,
\* auth:start is issued only after capabilities has succeeded, the token is
\* stored and fetch:config is issued only after auth:start has succeeded, and
\* fetch:config only after the token was stored; a failed capabilities or
\* auth:start is the last thing the flow does.
C24_CapabilitiesThenAuthStartThenFetchConfig ==
    \A i \in 1..Len(issued) :
        /\ issued[i].did = "auth:start" =>
               \E j \in 1..(i - 1) : issued[j] = [did |-> "capabilities", err |-> "nil"]
        /\ issued[i].did \in {"store", "fetch:config"} =>
               \E j \in 1..(i - 1) : issued[j] = [did |-> "auth:start", err |-> "nil"]
        /\ issued[i].did = "fetch:config" =>
               \E j \in 1..(i - 1) : issued[j] = [did |-> "store", err |-> "nil"]
        /\ (issued[i].did \in {"capabilities", "auth:start"} /\ issued[i].err # "nil") =>
               i = Len(issued)

C24_Witness ==
    /\ screen = "auth" /\ authStep = "authStepError"
    /\ authErr = "bridgeError"
    /\ Len(issued) = 5
    /\ issued[1] = [did |-> "capabilities", err |-> "nil"]
    /\ issued[2] = [did |-> "auth:start", err |-> "nil"]
    /\ issued[3] = [did |-> "store", err |-> "nil"]
    /\ issued[4] = [did |-> "fetch:config", err |-> "bridgeError"]
    /\ issued[5] = [did |-> "delete", err |-> "nil"]
    /\ Get(keyring, authProvider).err # "nil"

-----------------------------------------------------------------------------
(* Properties of the screens *)

\* the program of the screen runs and no message is on its way to Update:
\* nothing happens until a key is pressed
AwaitsKey == prog = "running" /\ pending = NoMsg /\ cmd = NoCmd

\* C26: Ctrl+C in the dashboard, the init wizard or the auth screen ends dt:
\* no screen is ever launched by the return of a program that Ctrl+C ended.
C26_CtrlCLaunchesNothing ==
    screen # "none" => launchKey # "ctrl+c"

\* C27: in the dashboard, Enter on 'Start New Migration' and Enter on 'Manage
\* Auth' lead to the init wizard and to the auth menu with no further key:
\* the dashboard never waits for a key with one of the two selected.
C27_EnterLaunchesWithoutFurtherKey ==
    (screen = "dashboard" /\ selected \in {"init", "auth"}) => ~AwaitsKey

\* C28: q in the dashboard ends dt whatever was selected with Enter before:
\* no init wizard and no auth screen is launched by the return of a program
\* that q ended.
C28_QLaunchesNothing ==
    screen \in {"init", "auth"} => launchKey # "q"

-----------------------------------------------------------------------------
(* Properties of the exit status and of the deadline *)

\* C31 as stated: when the child has written an envelope with ok false and an
\* error and has exited, with whatever status, Execute returns the BridgeError
\* of the envelope.
C31_EnvelopeErrorWhateverExit ==
    (Returned /\ child = "exited" /\ FailureEnvelope(stdout)) =>
        /\ err.type = "BridgeError"
        /\ stdout.error.code # "absent" => err.code = stdout.error.code

\* C31, amended: the BridgeError of an envelope with ok false reaches the
\* caller when the child exited with status 0.  After any other exit status
\* the output is not read: Execute returns no Response and the plain error
\* "adapter execution failed" with the captured stderr text, or the TIMEOUT
\* error when the deadline had ended timeoutCtx by then.
C31_EnvelopeErrorAfterCleanExitOnly ==
    (Returned /\ child = "exited" /\ FailureEnvelope(stdout)) =>
        /\ exitCode = 0 =>
             /\ err.type = "BridgeError"
             /\ stdout.error.code # "absent" => err.code = stdout.error.code
        /\ (exitCode # 0 /\ timeoutCtxErr # "DeadlineExceeded") =>
             /\ response = Nil
             /\ err.type = "error" /\ err.text = "adapter execution failed"
             /\ err.stderr = stderr
        /\ (exitCode # 0 /\ timeoutCtxErr = "DeadlineExceeded") =>
             response = Nil /\ IsTimeoutError(err)

C31_Witness ==
    /\ pc = "done" /\ child = "exited" /\ exitCode = 1
    /\ FailureEnvelope(stdout) /\ stdout.error.code = ErrAuthFailed
    /\ timeoutCtxErr = "nil"
    /\ resultErr.type = "error" /\ resultErr.text = "adapter execution failed"

\* C32: Execute returns the engine's TIMEOUT error only when the timeout the
\* bridge was configured with has elapsed since the call started (at once,
\* for a timeout that is not positive): a deadline or a cancellation of the
\* caller's context is never reported as a TIMEOUT.
C32_TimeoutOnlyAfterConfiguredTimeout ==
    (Returned /\ response = Nil /\ IsTimeoutError(err)) =>
        timerFired \/ deadline <= 0

-----------------------------------------------------------------------------
(* Properties of the Vercel adapter's capabilities *)

\* supported_verbs of VercelAdapter.capabilities
SupportedVerbs ==
    {"capabilities", "auth:start", "fetch:config", "sync:env", "deploy:preview",
     "dns:update", "dns:rollback"}

\* C33: a verb listed in supported_verbs is never answered with UNSUPPORTED,
\* and a verb that is answered with UNSUPPORTED is not in supported_verbs.
C33_SupportedVerbsAreImplemented ==
    (adapterPc \in {"written", "exited"} /\ ~InvalidStdin) =>
        \A k \in 1..Len(adapterStdout) :
            /\ adapterVerb \in SupportedVerbs =>
                   adapterStdout[k].error.code # ErrUnsupported
            /\ adapterStdout[k].error.code = ErrUnsupported =>
                   adapterVerb \notin SupportedVerbs

-----------------------------------------------------------------------------
(* Properties of the token *)

\* C34: in the flow of dt auth <provider> and in the flow of the auth screen
\* alike, once fetch:config has answered and the keychain has done what it
\* was asked, the token is stored for the provider when the verification
\* succeeded (no error, or INVALID_PARAMS) and is not stored when it failed.
C34_UnverifiedTokenNotKept ==
    \A i \in 1..Len(issued) :
        (issued[i].did = "fetch:config" /\ cmd = NoCmd /\ authProvider # "none"
           /\ kcCall.err = "nil") =>
            IF issued[i].err \in {"nil", "invalidParams"}
            THEN Get(keyring, authProvider) = [token |-> token, err |-> "nil"]
            ELSE Get(keyring, authProvider).err # "nil"

\* C35: a flow that has called fetch:config ends in success exactly when the
\* call returned no error or a BridgeError with code INVALID_PARAMS: Run
\* returns nil, the auth screen goes to authStepComplete; after any other
\* error Run returns an error and the auth screen goes to authStepError.
C35_VerificationSucceedsIff ==
    \A i \in 1..Len(issued) :
        issued[i].did = "fetch:config" =>
            /\ runPc = "returned" =>
                   (authErr = "nil" <=> issued[i].err \in {"nil", "invalidParams"})
            /\ (screen = "auth" /\ authProvider # "none"
                  /\ authStep \in {"authStepComplete", "authStepError"}) =>
                   /\ authStep = "authStepComplete" <=>
                          issued[i].err \in {"nil", "invalidParams"}
                   /\ authStep = "authStepError" <=> authErr # "nil"

C35_Witness ==
    /\ screen = "auth" /\ authStep = "authStepComplete" /\ authErr = "nil"
    /\ Len(issued) = 4
    /\ issued[4] = [did |-> "fetch:config", err |-> "invalidParams"]
    /\ Get(keyring, authProvider) = [token |-> "tok1", err |-> "nil"]

\* a line that is empty once it is trimmed
Blank(t) == t \in {"", "  "}

\* C36: an empty token is never stored and never verified.  Run, given a
\* line that is empty after trimming, returns "token cannot be empty" having
\* called neither keychain.Store nor fetch:config; the auth screen, given an
\* empty input, stays at authStepEnterToken and issues no verifyTokenCmd.
C36_EmptyTokenNeitherStoredNorVerified ==
    /\ \A k \in DOMAIN keyring : keyring[k] # ""
    /\ runPc \in {"store", "verify"} => ~Blank(token)
    /\ (runPc = "returned" /\ authErr # "failed to read token"
          /\ Len(issued) = 2 /\ issued[2] = [did |-> "auth:start", err |-> "nil"]) =>
           Blank(token) /\ authErr = "token cannot be empty"
    /\ \A i \in 1..Len(issued) :
           (runPc # "idle" /\ issued[i].did \in {"store", "fetch:config"}) =>
               ~Blank(token)
    /\ cmd.name = "verifyTokenCmd" => cmd.token # ""
    /\ (screen = "auth" /\ authStep = "authStepEnterToken") =>
           cmd.name # "verifyTokenCmd"
    /\ (screen = "auth" /\ authStep = "authStepVerifying") => token # ""

C36_Witness ==
    /\ runPc = "returned" /\ authErr = "token cannot be empty" /\ token = ""
    /\ Len(issued) = 2 /\ issued[2] = [did |-> "auth:start", err |-> "nil"]
    /\ shown = "prompt" /\ keyring = << >>

\* C37: in every state of the auth screen, authStepEnterToken implies that
\* capabilities and authData are both non-nil, so that the rendering of the
\* step dereferences no nil pointer, and authStepError implies that err is
\* non-nil.
C37_EnterTokenHasCapabilitiesAndAuthData ==
    /\ (screen = "auth" /\ authStep = "authStepEnterToken") =>
           ~caps.nil /\ ~authData.nil
    /\ screen = "auth" => shown # "panic"
    /\ (screen = "auth" /\ authStep = "authStepError") => authErr # "nil"

C37_Witness ==
    /\ screen = "auth" /\ prog = "running" /\ authStep = "authStepEnterToken"
    /\ width = TermWidth /\ shown = "prompt"
    /\ caps = CapabilitiesData /\ authData = [nil |-> FALSE, auth_url |-> ""]

\* the changes of step the claim allows
AuthStepEdges ==
    { << "authStepMenu", "authStepSelectProvider" >>,
      << "authStepMenu", "authStepComplete" >>,
      << "authStepSelectProvider", "authStepFetchingCapabilities" >>,
      << "authStepFetchingCapabilities", "authStepEnterToken" >>,
      << "authStepFetchingCapabilities", "authStepError" >>,
      << "authStepEnterToken", "authStepVerifying" >>,
      << "authStepVerifying", "authStepComplete" >>,
      << "authStepVerifying", "authStepError" >> }

\* one step of the auth screen: the step changes along an allowed edge, and
\* a message is applied in the step whose command sent it
AuthStepMove ==
    (screen = "auth" /\ screen' = "auth") =>
        /\ authStep' # authStep => << authStep, authStep' >> \in AuthStepEdges
        /\ (pending.type = "capabilitiesMsg" /\ pending' = NoMsg) =>
               authStep = "authStepFetchingCapabilities"
        /\ (pending.type = "verifyMsg" /\ pending' = NoMsg) =>
               authStep = "authStepVerifying"

\* a command is running only in the step that issued it
CommandInItsStep ==
    (screen = "auth" /\ cmd # NoCmd) =>
        \/ authStep = "authStepFetchingCapabilities" /\ cmd.name = "fetchCapabilitiesCmd"
        \/ authStep = "authStepVerifying" /\ cmd.name = "verifyTokenCmd"

\* C38: the step of the auth screen changes only along Menu -> SelectProvider,
\* Menu -> Complete, SelectProvider -> FetchingCapabilities,
\* FetchingCapabilities -> EnterToken or Error, EnterToken -> Verifying,
\* Verifying -> Complete or Error; a bridge command is in flight only in
\* FetchingCapabilities or Verifying, and its message is applied only in the
\* step that issued it.
C38_StepEdgesAndCommandInItsStep ==
    [][AuthStepMove]_vars /\ []CommandInItsStep

\* C39: in the auth screen the browser is opened at most once for one
\* successful auth:start result, however often the token step is rendered
\* again (spinner ticks, keys, changes of the window's size).
C39_BrowserOpenedAtMostOnce ==
    screen = "auth" => opens <= 1

\* C40: in the init wizard a migration record is created only by Enter at
\* stepConfirm, after source, target and a non-empty domain were chosen;
\* quitting before creates none; stepComplete implies that exactly one record,
\* of status 'pending', was created and that err is nil; and when
\* CreateMigration fails the wizard stays at stepConfirm with err set and
\* shows the error.
C40_RecordOnlyOnConfirmAndErrorShown ==
    screen = "init" =>
        /\ initStep # "stepComplete" => migrations = << >>
        /\ initStep = "stepComplete" =>
               /\ Len(migrations) = 1
               /\ migrations[1].status = "pending"
               /\ migrations[1].source # "" /\ migrations[1].target # ""
               /\ migrations[1].domain # ""
               /\ initModel.err = "nil"
        /\ initModel.err # "nil" =>
               /\ initStep = "stepConfirm"
               /\ width # 0 => initShown = "error"

=============================================================================
